---- MODULE Spec2Model ----
(***************************************************************************)
(* Business-logic layer of the inventory / CRM backend:                    *)
(*   - the soft-delete lifecycle of an entity table and the query filters  *)
(*     its viewset applies (core/soft_delete.py, crm/api.py, wiki/api.py,  *)
(*     inventory/api.py, maintenance/api.py);                              *)
(*   - custom-field normalisation and validation                           *)
(*     (custom_fields/validation.py);                                      *)
(*   - the audit diff and its masking of sensitive fields (audit/utils.py).*)
(*                                                                         *)
(* Strings the code inspects character by character (query flags, keys,    *)
(* field names, numerals) are sequences of one-character strings.          *)
(***************************************************************************)
EXTENDS Integers, Sequences, FiniteSets, TLC

VARIABLES
    entity,        \* which viewset serves the table of this behaviour
    deleted_at,    \* the table: row id (1..n) -> NULL_TS or DELETED_TS
    audit_events,  \* AuditEvent rows, in creation order
    resp,          \* the last HTTP response
    cf_in,         \* arguments of normalize_and_validate_custom_fields
    cf_out,        \* its outcome
    diff_in,       \* a field and its before / after values
    diff_out,      \* the audit diff computed from it
    fault,         \* the failure the last request met: which write raised
    users,         \* auth.User rows: username -> "active" or "disabled"
    session,       \* the user of the session, "" when anonymous
    due_in,        \* arguments of compute_next_due_date
    due_out,       \* its outcome
    plan,          \* a MaintenancePlan row
    last_event,    \* the MaintenanceEvent recorded last for the plan
    inventories,   \* Inventory rows with their unique fields
    crypto_in,     \* the settings and the value of an encrypt / decrypt round trip
    crypto_out,    \* its outcome
    pending,       \* the requests in flight: what each has read, where it stands
    contacts,      \* Contact rows
    folders,       \* DriveFolder rows
    files          \* DriveFile rows

vars == <<entity, deleted_at, audit_events, resp, cf_in, cf_out, diff_in, diff_out,
         fault, users, session, due_in, due_out, plan, last_event, inventories,
         crypto_in, crypto_out, pending, contacts, folders, files>>
sdVars == <<entity, deleted_at, audit_events, resp>>
cfVars == <<cf_in, cf_out>>
diffVars == <<diff_in, diff_out>>
faultVars == <<fault>>
authVars == <<users, session>>
dueVars == <<due_in, due_out>>
planVars == <<plan, last_event>>
uniqVars == <<inventories>>
cryptoVars == <<crypto_in, crypto_out>>
driveVars == <<folders, files>>
moreVars == <<cryptoVars, pending, contacts, driveVars>>
opsVars == <<faultVars, authVars, dueVars, planVars, uniqVars, moreVars>>

(***************************************************************************)
(* Bounds                                                                  *)
(***************************************************************************)
MaxRows == 2
MaxAudit == 1
MaxIncoming == 2

(***************************************************************************)
(* Strings                                                                 *)
(***************************************************************************)
UpperLetters == <<"A","B","C","D","E","F","G","H","I","J","K","L","M",
                  "N","O","P","Q","R","S","T","U","V","W","X","Y","Z">>
LowerLetters == <<"a","b","c","d","e","f","g","h","i","j","k","l","m",
                  "n","o","p","q","r","s","t","u","v","w","x","y","z">>
Digits == <<"0","1","2","3","4","5","6","7","8","9">>
Whitespace == {" ", "\t", "\n"}

IndexIn(c, alphabet) ==
    IF \E i \in 1..Len(alphabet) : alphabet[i] = c
    THEN CHOOSE i \in 1..Len(alphabet) : alphabet[i] = c
    ELSE 0

\* str.lower() on the characters it changes
LowerTable ==
    [c \in {UpperLetters[i] : i \in 1..Len(UpperLetters)} \cup {"À"} |->
        IF c = "À" THEN "à" ELSE LowerLetters[IndexIn(c, UpperLetters)]]

\* str.lower() on one character
LowerChar(c) == IF c \in DOMAIN LowerTable THEN LowerTable[c] ELSE c

Lower(s) == [i \in 1..Len(s) |-> LowerChar(s[i])]

RECURSIVE LStrip(_)
LStrip(s) == IF s # <<>> /\ Head(s) \in Whitespace THEN LStrip(Tail(s)) ELSE s

RECURSIVE RStrip(_)
RStrip(s) ==
    IF s # <<>> /\ s[Len(s)] \in Whitespace THEN RStrip(SubSeq(s, 1, Len(s) - 1)) ELSE s

\* str.strip()
Strip(s) == RStrip(LStrip(s))

\* s.replace(old, new) for a single character old; new is a string
RECURSIVE Replace(_, _, _)
Replace(s, old, new) ==
    IF s = <<>> THEN <<>>
    ELSE (IF Head(s) = old THEN new ELSE <<Head(s)>>) \o Replace(Tail(s), old, new)

\* needle in s
Contains(s, needle) ==
    \E i \in 1..(Len(s) - Len(needle) + 1) : SubSeq(s, i, i + Len(needle) - 1) = needle

s_1 == <<"1">>
s_0 == <<"0">>
s_true == <<"t","r","u","e">>
s_TRUE == <<"T","R","U","E">>
s_yes == <<"y","e","s">>
s_on == <<"o","n">>
s_on_padded == <<" ","o","n"," ">>
s_no == <<"n","o">>
s_all == <<"a","l","l">>
s_deleted == <<"d","e","l","e","t","e","d">>

(***************************************************************************)
(* Soft delete: the table and the query filters                            *)
(***************************************************************************)
NULL_TS == 0
DELETED_TS == 1

\* viewsets whose handlers write an audit event
AuditedEntities == {"customer", "inventory"}
Entities == {"customer", "inventory", "wiki_page", "maintenance_plan", "drive_folder"}

TRUTHY == {s_1, s_true, s_yes, s_on}

QueryValues == {s_1, s_TRUE, s_on_padded, s_no}
ViewValues == {s_all, s_deleted}
QueryParamNames == {"include_deleted", "only_deleted", "view"}
QueryParams ==
    UNION {{qp \in [names -> QueryValues \cup ViewValues] :
                \A name \in names : (name = "view") = (qp[name] \in ViewValues)} :
           names \in SUBSET QueryParamNames}

\* (query_params.get(name) or "")
QGetOr(query_params, name) ==
    IF name \in DOMAIN query_params THEN query_params[name] ELSE <<>>

AllRows == DOMAIN deleted_at
ActiveRows == {i \in AllRows : deleted_at[i] = NULL_TS}
DeletedRows == {i \in AllRows : deleted_at[i] # NULL_TS}

\* the mutant: the null test is inverted
FilterDeletedIsNull_Inverted(qs, isnull) == {i \in qs : (deleted_at[i] = NULL_TS) # isnull}

\* qs.filter(deleted_at__isnull=...)
FilterDeletedIsNull(qs, isnull) == {i \in qs : (deleted_at[i] = NULL_TS) = isnull}

\* the mutant: the restore override is missing
ApplySoftDeleteFilters_NoRestore(qs, query_params, action_name) ==
    LET include_deleted == Lower(Strip(QGetOr(query_params, "include_deleted")))
        only_deleted == Lower(Strip(QGetOr(query_params, "only_deleted")))
    IN  IF only_deleted \in TRUTHY THEN FilterDeletedIsNull(qs, FALSE)
        ELSE IF include_deleted \in TRUTHY THEN qs
        ELSE FilterDeletedIsNull(qs, TRUE)

\* the mutant: include_deleted is tested before only_deleted
ApplySoftDeleteFilters_IncludeFirst(qs, query_params, action_name) ==
    LET include_deleted_0 == Lower(Strip(QGetOr(query_params, "include_deleted")))
        only_deleted == Lower(Strip(QGetOr(query_params, "only_deleted")))
        include_deleted == IF action_name = "restore" THEN s_1 ELSE include_deleted_0
    IN  IF include_deleted \in TRUTHY THEN qs
        ELSE IF only_deleted \in TRUTHY THEN FilterDeletedIsNull(qs, FALSE)
        ELSE FilterDeletedIsNull(qs, TRUE)

\* core.soft_delete.apply_soft_delete_filters(qs, request=..., action_name=...)
ApplySoftDeleteFilters(qs, query_params, action_name) ==
    LET include_deleted_0 == Lower(Strip(QGetOr(query_params, "include_deleted")))
        only_deleted == Lower(Strip(QGetOr(query_params, "only_deleted")))
        include_deleted == IF action_name = "restore" THEN s_1 ELSE include_deleted_0
    IN  IF only_deleted \in TRUTHY THEN FilterDeletedIsNull(qs, FALSE)
        ELSE IF include_deleted \in TRUTHY THEN qs
        ELSE FilterDeletedIsNull(qs, TRUE)

\* the filter written inline in CustomerViewSet.get_queryset (no strip)
CrmInlineFilter(qs, query_params, action_name) ==
    LET include_deleted_0 == Lower(QGetOr(query_params, "include_deleted"))
        only_deleted == Lower(QGetOr(query_params, "only_deleted"))
        include_deleted == IF action_name = "restore" THEN s_1 ELSE include_deleted_0
    IN  IF only_deleted \in TRUTHY THEN FilterDeletedIsNull(qs, FALSE)
        ELSE IF include_deleted \in TRUTHY THEN qs
        ELSE FilterDeletedIsNull(qs, TRUE)

\* wiki.api._apply_deleted_filters (no strip)
WikiApplyDeletedFilters(qs, query_params, action_name) ==
    LET include_deleted_0 == Lower(QGetOr(query_params, "include_deleted"))
        only_deleted == Lower(QGetOr(query_params, "only_deleted"))
        include_deleted == IF action_name = "restore" THEN s_1 ELSE include_deleted_0
    IN  IF only_deleted \in TRUTHY THEN FilterDeletedIsNull(qs, FALSE)
        ELSE IF include_deleted \in TRUTHY THEN qs
        ELSE FilterDeletedIsNull(qs, TRUE)

\* drive.api._apply_deleted_filters: ?view=all|deleted, then the shared filter
\* with include_deleted / only_deleted passed explicitly
DriveApplyDeletedFilters(qs, query_params, action_name) ==
    LET include_deleted_0 == Lower(QGetOr(query_params, "include_deleted"))
        only_deleted_0 == Lower(QGetOr(query_params, "only_deleted"))
        view_param == Lower(Strip(QGetOr(query_params, "view")))
        only_deleted == IF view_param = s_deleted THEN s_1 ELSE only_deleted_0
        include_deleted_1 ==
            IF view_param # s_deleted /\ view_param = s_all THEN s_1 ELSE include_deleted_0
        include_deleted == IF action_name = "restore" THEN s_1 ELSE include_deleted_1
    IN  ApplySoftDeleteFilters(
            qs, [include_deleted |-> include_deleted, only_deleted |-> only_deleted],
            action_name)

\* drive.api._filter_accessible_folders for a request of a superuser
FilterAccessibleFolders(qs) == qs

\* <ViewSet>.get_queryset() of the viewset serving `entity`
GetQueryset(query_params, action_name) ==
    CASE entity = "customer" -> CrmInlineFilter(AllRows, query_params, action_name)
      [] entity = "wiki_page" -> WikiApplyDeletedFilters(AllRows, query_params, action_name)
      [] entity = "drive_folder" ->
            FilterAccessibleFolders(DriveApplyDeletedFilters(AllRows, query_params, action_name))
      [] OTHER -> ApplySoftDeleteFilters(AllRows, query_params, action_name)

(***************************************************************************)
(* Soft delete: the request handlers of the viewset                        *)
(***************************************************************************)
Response(op, id, status, rows) == [op |-> op, id |-> id, status |-> status, rows |-> rows]

AuditEvent(action, object_id) == [action |-> action, object_id |-> object_id]

\* audit.utils.log_event: one AuditEvent row is created
LogEvent(events, action, object_id) == Append(events, AuditEvent(action, object_id))

RECURSIVE LogEvents(_, _, _)
LogEvents(events, action, ids) ==
    IF ids = <<>> THEN events
    ELSE LogEvents(LogEvent(events, action, Head(ids)), action, Tail(ids))

\* the audit events a handler of the viewset serving `entity` writes
Logged(events, action, ids) ==
    IF entity \in AuditedEntities
    THEN LogEvents(events, action, ids)
    ELSE events

CanLog(k) == entity \notin AuditedEntities \/ Len(audit_events) + k <= MaxAudit

\* every order in which a queryset without a total order may yield the ids
Orders(ids) ==
    {s \in [1..Cardinality(ids) -> ids] : \A i, j \in DOMAIN s : i # j => s[i] # s[j]}

\* POST /<entity>/ : CreateModelMixin.create, perform_create
Create ==
    /\ Len(deleted_at) < MaxRows
    /\ CanLog(1)
    /\ LET id == Len(deleted_at) + 1 IN
          /\ deleted_at' = Append(deleted_at, NULL_TS)
          /\ audit_events' = Logged(audit_events, "create", <<id>>)
          /\ resp' = Response("create", id, 201, {id})
    /\ UNCHANGED <<entity, cfVars, diffVars, opsVars>>

\* GET /<entity>/ : ListModelMixin.list over get_queryset()
List(query_params) ==
    /\ resp' = Response("list", 0, 200, GetQueryset(query_params, "list"))
    /\ UNCHANGED <<entity, deleted_at, audit_events, cfVars, diffVars, opsVars>>

\* GET /<entity>/<id>/ : RetrieveModelMixin.retrieve, get_object()
Retrieve(id, query_params) ==
    /\ resp' = IF id \notin GetQueryset(query_params, "retrieve")
               THEN Response("retrieve", id, 404, {})
               ELSE Response("retrieve", id, 200, {id})
    /\ UNCHANGED <<entity, deleted_at, audit_events, cfVars, diffVars, opsVars>>

\* PUT/PATCH /<entity>/<id>/ : the serializers expose deleted_at as a writable field
Update(id, query_params, new_deleted_at) ==
    /\ IF id \notin GetQueryset(query_params, "update")
       THEN /\ resp' = Response("update", id, 404, {})
            /\ UNCHANGED <<deleted_at, audit_events>>
       ELSE /\ CanLog(1)
            /\ deleted_at' = [deleted_at EXCEPT ![id] = new_deleted_at]
            /\ audit_events' = Logged(audit_events, "update", <<id>>)
            /\ resp' = Response("update", id, 200, {id})
    /\ UNCHANGED <<entity, cfVars, diffVars, opsVars>>

\* DELETE /<entity>/<id>/ : DestroyModelMixin.destroy, perform_destroy
Destroy(id, query_params) ==
    /\ IF id \notin GetQueryset(query_params, "destroy")
       THEN /\ resp' = Response("destroy", id, 404, {})
            /\ UNCHANGED <<deleted_at, audit_events>>
       ELSE /\ CanLog(1)
            /\ deleted_at' = [deleted_at EXCEPT ![id] = DELETED_TS]
            /\ audit_events' = Logged(audit_events, "delete", <<id>>)
            /\ resp' = Response("destroy", id, 204, {})
    /\ UNCHANGED <<entity, cfVars, diffVars, opsVars>>

\* the status of a successful restore: crm and inventory answer 204, the others the row
RestoreStatus == IF entity \in {"customer", "inventory"} THEN 204 ELSE 200

\* POST /<entity>/<id>/restore/
Restore(id, query_params) ==
    /\ IF id \notin GetQueryset(query_params, "restore")
       THEN /\ resp' = Response("restore", id, 404, {})
            /\ UNCHANGED <<deleted_at, audit_events>>
       ELSE /\ CanLog(1)
            /\ deleted_at' = [deleted_at EXCEPT ![id] = NULL_TS]
            /\ audit_events' = Logged(audit_events, "restore", <<id>>)
            /\ resp' = Response("restore", id, RestoreStatus, {id})
    /\ UNCHANGED <<entity, cfVars, diffVars, opsVars>>

\* POST /<entity>/bulk_restore/ with body {"ids": [...]}
BulkRestore(ids) ==
    /\ IF ids = {}
       THEN /\ resp' = Response("bulk_restore", 0, 400, {})
            /\ UNCHANGED <<deleted_at, audit_events>>
       ELSE LET qs == {i \in AllRows : i \in ids /\ deleted_at[i] # NULL_TS} IN
            /\ CanLog(Cardinality(qs))
            /\ \E order \in Orders(qs) :
                  audit_events' = Logged(audit_events, "restore", order)
            /\ deleted_at' = [i \in AllRows |-> IF i \in qs THEN NULL_TS ELSE deleted_at[i]]
            /\ resp' = Response("bulk_restore", 0, 200, qs)
    /\ UNCHANGED <<entity, cfVars, diffVars, opsVars>>

\* the permission classes refuse the request before the handler runs
\* (IsAuthenticatedDjangoModelPermissions, CanRestore*): 403, nothing changes
PermissionDenied(op) ==
    /\ resp' = Response(op, 0, 403, {})
    /\ UNCHANGED <<entity, deleted_at, audit_events, cfVars, diffVars, opsVars>>

Operations == {"create", "list", "retrieve", "update", "destroy", "restore", "bulk_restore"}

RowIds == 1..MaxRows

\* the query strings the requests of a behaviour carry; the filters themselves
\* are checked on every member of QueryParams
RequestParams ==
    {qp \in QueryParams : \A name \in DOMAIN qp : qp[name] = s_1}
    \cup {[include_deleted |-> s_on_padded], [only_deleted |-> s_TRUE], [view |-> s_deleted]}

IdleCf == [status |-> "idle"]
IdleDiff == [status |-> "idle"]
Idle == [status |-> "idle"]

IdleMore ==
    /\ crypto_in = Idle /\ crypto_out = Idle
    /\ pending = <<>>
    /\ contacts = <<>>
    /\ folders = <<>> /\ files = <<>>

\* the parts of the state a behaviour does not use
IdleOps ==
    /\ fault = Idle
    /\ users = <<>> /\ session = ""
    /\ due_in = Idle /\ due_out = Idle
    /\ plan = Idle /\ last_event = Idle
    /\ inventories = <<>>
    /\ IdleMore

\* a table as imports or earlier requests left it, no request served yet
InitSoftDelete ==
    /\ entity \in Entities
    /\ deleted_at \in UNION {[1..n -> {NULL_TS, DELETED_TS}] : n \in 0..MaxRows}
    /\ audit_events = <<>>
    /\ resp = Response("none", 0, 0, {})

Init ==
    /\ InitSoftDelete
    /\ cf_in = IdleCf /\ cf_out = IdleCf
    /\ diff_in = IdleDiff /\ diff_out = IdleDiff
    /\ IdleOps

Next ==
    \/ Create
    \/ \E qp \in RequestParams : List(qp)
    \/ \E id \in RowIds, qp \in RequestParams : Retrieve(id, qp)
    \/ \E id \in RowIds, qp \in RequestParams, ts \in {NULL_TS, DELETED_TS} : Update(id, qp, ts)
    \/ \E id \in RowIds, qp \in RequestParams : Destroy(id, qp)
    \/ \E id \in RowIds, qp \in RequestParams : Restore(id, qp)
    \/ \E ids \in SUBSET RowIds : BulkRestore(ids)
    \/ \E op \in Operations : PermissionDenied(op)

Spec == Init /\ [][Next]_vars

(***************************************************************************)
(* Claims about the soft-delete lifecycle (specification Spec)             *)
(***************************************************************************)
NoParams == [name \in {} |-> s_1]
OnlyParam(name, value) == [n \in {name} |-> value]
WithParam(query_params, name, value) ==
    [n \in DOMAIN query_params \cup {name} |-> IF n = name THEN value ELSE query_params[n]]

C3_RestoreUnfiltered ==
    \A qp \in QueryParams : GetQueryset(qp, "restore") = AllRows

\* C3, amended: under the restore action the filter returns what a list with
\* include_deleted=1 and the same other flags returns: every soft-deleted row
\* always, every row when neither only_deleted nor view is given, and only the
\* soft-deleted rows when only_deleted=1.
C3_RestoreAsIncludeDeleted ==
    \A qp \in QueryParams :
        LET rows == GetQueryset(qp, "restore") IN
        /\ rows = GetQueryset(WithParam(qp, "include_deleted", s_1), "list")
        /\ DeletedRows \subseteq rows
        /\ ("only_deleted" \notin DOMAIN qp /\ "view" \notin DOMAIN qp) => rows = AllRows
        /\ ("only_deleted" \in DOMAIN qp /\ qp["only_deleted"] = s_1) => rows = DeletedRows

\* a restore addressed to an active row was answered 404: the query carried a
\* truthy only_deleted (or view=deleted)
C3_Witness ==
    /\ resp.op = "restore" /\ resp.status = 404
    /\ resp.id \in ActiveRows

(***************************************************************************)
(* Custom fields: JSON values as Python sees them                          *)
(***************************************************************************)
\* the elements of a sequence
SeqRange(s) == {s[i] : i \in DOMAIN s}

PyNone == [t |-> "null"]
PyStr(s) == [t |-> "str", s |-> s]
PyInt(n) == [t |-> "int", n |-> n]
PyBool(b) == [t |-> "bool", b |-> b]
\* a finite float m * 10^e with e <= 0, and m not a multiple of 10 when e < 0
PyFloat(m, e) == [t |-> "float", m |-> m, e |-> e]
\* float("nan"), float("inf"), float("-inf")
PyNonFinite(which) == [t |-> "nonfinite", which |-> which]
\* a JSON array, [1]
PyList == [t |-> "list"]
\* a JSON object: d maps its keys to values
PyDict(d) == [t |-> "dict", d |-> d]

IsStr(v) == v.t = "str"
\* v is None or v == ""  /  val in (None, "")
IsNoneOrEmpty(v) == v = PyNone \/ v = PyStr(<<>>)
\* isinstance(v, str) and not v.strip()
IsBlankStr(v) == IsStr(v) /\ Strip(v.s) = <<>>

\* dicts: functions from keys (strings) to values
EmptyDict == [k \in {} |-> PyNone]
DictSet(d, key, value) ==
    [k \in DOMAIN d \cup {key} |-> IF k = key THEN value ELSE d[k]]
\* d.get(key)
DictGet(d, key) == IF key \in DOMAIN d THEN d[key] ELSE PyNone
\* d.pop(key, None)
DictPop(d, key) == [k \in DOMAIN d \ {key} |-> d[k]]

(***************************************************************************)
(* str() and float() of Python, on the values above                        *)
(***************************************************************************)
DigitSet == {Digits[i] : i \in 1..Len(Digits)}
DigitValue(c) == IndexIn(c, Digits) - 1
AllDigits(s) == \A i \in 1..Len(s) : s[i] \in DigitSet

\* int(s) for a string of digits
RECURSIVE DigitsValue(_)
DigitsValue(s) ==
    IF s = <<>> THEN 0
    ELSE DigitsValue(SubSeq(s, 1, Len(s) - 1)) * 10 + DigitValue(s[Len(s)])

RECURSIVE Pow10(_)
Pow10(n) == IF n <= 0 THEN 1 ELSE 10 * Pow10(n - 1)

\* str(n) for an int n >= 0
RECURSIVE NatToStr(_)
NatToStr(n) ==
    IF n < 10 THEN <<Digits[n + 1]>> ELSE NatToStr(n \div 10) \o <<Digits[(n % 10) + 1]>>

IntToStr(n) == IF n < 0 THEN <<"-">> \o NatToStr(-n) ELSE NatToStr(n)

RECURSIVE ZeroPad(_, _)
ZeroPad(s, width) == IF Len(s) >= width THEN s ELSE ZeroPad(<<"0">> \o s, width)

\* repr of a finite float in positional notation (1e-4 <= |x| < 1e16)
FloatToStr(m, e) ==
    IF e = 0 THEN IntToStr(m) \o <<".", "0">>
    ELSE LET ds == ZeroPad(NatToStr(IF m < 0 THEN -m ELSE m), 1 - e)
             cut == Len(ds) + e
         IN  (IF m < 0 THEN <<"-">> ELSE <<>>)
             \o SubSeq(ds, 1, cut) \o <<".">> \o SubSeq(ds, cut + 1, Len(ds))

\* str(v)
Str(v) ==
    CASE v.t = "str" -> v.s
      [] v.t = "int" -> IntToStr(v.n)
      [] v.t = "bool" -> IF v.b THEN <<"T","r","u","e">> ELSE <<"F","a","l","s","e">>
      [] v.t = "float" -> FloatToStr(v.m, v.e)
      [] v.t = "nonfinite" ->
            IF v.which = "nan" THEN <<"n","a","n">>
            ELSE IF v.which = "inf" THEN <<"i","n","f">> ELSE <<"-","i","n","f">>
      [] v.t = "null" -> <<"N","o","n","e">>
      [] OTHER -> <<"[","1","]">>

\* first position of a character of `chars` in s, 0 when there is none
FirstOf(s, chars) ==
    IF \E i \in 1..Len(s) : s[i] \in chars
    THEN CHOOSE i \in 1..Len(s) : s[i] \in chars /\ \A j \in 1..(i - 1) : s[j] \notin chars
    ELSE 0

\* m * 10^e brought to the form PyFloat expects
RECURSIVE NormFloat(_, _)
NormFloat(m, e) ==
    IF m = 0 THEN PyFloat(0, 0)
    ELSE IF e > 0 THEN PyFloat(m * Pow10(e), 0)
    ELSE IF e < 0 /\ m % 10 = 0 THEN NormFloat(m \div 10, e + 1)
    ELSE PyFloat(m, e)

\* the underscores float() accepts stand between two digits
UnderscoresOk(s) ==
    \A i \in 1..Len(s) : s[i] = "_" =>
        /\ i > 1 /\ i < Len(s)
        /\ s[i - 1] \in DigitSet /\ s[i + 1] \in DigitSet

\* s before / after position pos; all of s / nothing when pos = 0
Before(s, pos) == IF pos = 0 THEN s ELSE SubSeq(s, 1, pos - 1)
After(s, pos) == IF pos = 0 THEN <<>> ELSE SubSeq(s, pos + 1, Len(s))

\* a decimal numeral: mantissa with its dot at `dot`, the text exp0 after e
ParseDecimal(mant, dot, exp0, hasExp, neg) ==
    LET intPart == Before(mant, dot)
        fracPart == After(mant, dot)
        expSigned == exp0 # <<>> /\ Head(exp0) \in {"+", "-"}
        expDigits == IF expSigned THEN Tail(exp0) ELSE exp0
    IN  IF /\ AllDigits(intPart) /\ AllDigits(fracPart)
           /\ Len(intPart) + Len(fracPart) >= 1
           /\ (hasExp => (expDigits # <<>> /\ AllDigits(expDigits)))
        THEN [ok |-> TRUE,
              v |-> NormFloat(
                       (IF neg THEN -1 ELSE 1) * DigitsValue(intPart \o fracPart),
                       (IF expSigned /\ Head(exp0) = "-" THEN -1 ELSE 1) * DigitsValue(expDigits)
                       - Len(fracPart))]
        ELSE [ok |-> FALSE]

\* the numeral split at its exponent mark
ParseSplit(body, epos, neg) ==
    ParseDecimal(Before(body, epos), FirstOf(Before(body, epos), {"."}),
                 After(body, epos), epos # 0, neg)

\* the text after the sign
ParseUnsigned(body0, neg) ==
    IF Lower(body0) = <<"n","a","n">> THEN [ok |-> TRUE, v |-> PyNonFinite("nan")]
    ELSE IF Lower(body0) \in {<<"i","n","f">>, <<"i","n","f","i","n","i","t","y">>}
         THEN [ok |-> TRUE, v |-> PyNonFinite(IF neg THEN "-inf" ELSE "inf")]
    ELSE IF ~UnderscoresOk(body0) THEN [ok |-> FALSE]
    ELSE ParseSplit(Replace(body0, "_", <<>>), FirstOf(Replace(body0, "_", <<>>), {"e", "E"}), neg)

ParseSigned(s1) ==
    IF s1 # <<>> /\ Head(s1) \in {"+", "-"}
    THEN ParseUnsigned(Tail(s1), Head(s1) = "-")
    ELSE ParseUnsigned(s1, FALSE)

\* float(s): [ok |-> FALSE] for ValueError, else the float; doubles are taken
\* as exact decimals (numerals of at most 15 significant digits, no overflow)
ParseFloat(s) == ParseSigned(Strip(s))

(***************************************************************************)
(* Custom fields: definitions and key normalisation                        *)
(***************************************************************************)
\* the .replace(old, new) calls of _norm_key, in order
NormKeyReplacements ==
    << <<"à", <<"a">>>>, <<"á", <<"a">>>>, <<"â", <<"a">>>>, <<"ä", <<"a">>>>,
       <<"è", <<"e">>>>, <<"é", <<"e">>>>, <<"ê", <<"e">>>>,
       <<"ì", <<"i">>>>, <<"í", <<"i">>>>,
       <<"ò", <<"o">>>>, <<"ó", <<"o">>>>,
       <<"ù", <<"u">>>>, <<"ú", <<"u">>>>,
       <<"'", <<>>>> >>

RECURSIVE ReplaceEach(_, _)
ReplaceEach(s, pairs) ==
    IF pairs = <<>> THEN s
    ELSE ReplaceEach(Replace(s, Head(pairs)[1], Head(pairs)[2]), Tail(pairs))

\* _norm_key(s); casefold is lower on the characters modelled
NormKey(s) == ReplaceEach(Lower(Strip(s)), NormKeyReplacements)

\* a CustomFieldDefinition row
Definition(entity_name, key, aliases, field_type, required, options, sort_order, label, is_active, deleted) ==
    [entity |-> entity_name, key |-> key, aliases |-> aliases, field_type |-> field_type,
     required |-> required, options |-> options, sort_order |-> sort_order,
     label |-> label, is_active |-> is_active, deleted_at |-> deleted]

\* the code points of the characters, in increasing order
CodePoints ==
    <<" ", "'">> \o Digits \o UpperLetters \o <<"_">> \o LowerLetters
    \o <<"À", "à", "á", "â", "ä", "è", "é", "ê", "ì", "í", "ò", "ó", "ù", "ú">>

\* a < b for strings, by code point
RECURSIVE StrLess(_, _)
StrLess(a, b) ==
    IF b = <<>> THEN FALSE
    ELSE IF a = <<>> THEN TRUE
    ELSE IF Head(a) = Head(b) THEN StrLess(Tail(a), Tail(b))
    ELSE IndexIn(Head(a), CodePoints) < IndexIn(Head(b), CodePoints)

\* .order_by("sort_order", "label", "key"): x sorts before y
DefBefore(x, y) ==
    \/ x.sort_order < y.sort_order
    \/ /\ x.sort_order = y.sort_order
       /\ \/ StrLess(x.label, y.label)
          \/ x.label = y.label /\ StrLess(x.key, y.key)

\* the rows of `rows` (a set with distinct keys) in order_by order
RECURSIVE SortDefs(_)
SortDefs(rows) ==
    IF rows = {} THEN <<>>
    ELSE LET first == CHOOSE x \in rows : \A y \in rows \ {x} : DefBefore(x, y)
         IN  <<first>> \o SortDefs(rows \ {first})

\* the queryset of get_definition_maps, as a list
ActiveDefs(table, entity_name) ==
    SortDefs({d \in table : d.entity = entity_name /\ d.is_active /\ d.deleted_at = NULL_TS})

\* alias_to_key after the keys and aliases of one definition are entered
RECURSIVE EnterAliases(_, _, _)
EnterAliases(alias_to_key, aliases, key) ==
    IF aliases = <<>> THEN alias_to_key
    ELSE EnterAliases(DictSet(alias_to_key, NormKey(Head(aliases)), key), Tail(aliases), key)

RECURSIVE AliasToKey(_)
AliasToKey(defs) ==
    IF defs = <<>> THEN EmptyDict
    ELSE EnterAliases(
            DictSet(AliasToKey(SubSeq(defs, 1, Len(defs) - 1)),
                    NormKey(defs[Len(defs)].key), defs[Len(defs)].key),
            defs[Len(defs)].aliases, defs[Len(defs)].key)

\* get_definition_maps(entity)
DefMaps(defs) == [defs |-> defs, alias_to_key |-> AliasToKey(defs)]
GetDefinitionMaps(table, entity_name) == DefMaps(ActiveDefs(table, entity_name))

\* maps.alias_to_key.get(norm), None as the empty string (both are falsy)
AliasGet(alias_to_key, norm) ==
    IF norm \in DOMAIN alias_to_key THEN alias_to_key[norm] ELSE <<>>

(***************************************************************************)
(* Custom fields: coercion and validation                                  *)
(***************************************************************************)
s_y == <<"y">>
s_n == <<"n">>
s_false == <<"f","a","l","s","e">>
s_off == <<"o","f","f">>

\* _coerce_bool(v), lines 79-84: the string s
BoolOfStr(s) ==
    IF s \in {s_1, s_true, s_yes, s_y, s_on} THEN PyBool(TRUE)
    ELSE IF s \in {s_0, s_false, s_no, s_n, s_off} THEN PyBool(FALSE)
    ELSE PyNone

\* _coerce_bool(v); None is PyNone
CoerceBool(v) ==
    IF IsNoneOrEmpty(v) THEN PyNone
    ELSE IF v.t = "bool" THEN v
    ELSE IF v.t = "int" THEN PyBool(v.n # 0)
    ELSE IF v.t = "float" THEN PyBool(v.m # 0)
    ELSE IF v.t = "nonfinite" THEN PyBool(TRUE)
    ELSE BoolOfStr(Lower(Strip(Str(v))))

\* _coerce_number(v), lines 97-103: the outcome f of float(s)
NumberOfFloat(f) ==
    IF ~f.ok THEN PyNone
    ELSE IF f.v.t = "float" /\ f.v.e = 0 THEN PyInt(f.v.m)
    ELSE f.v

\* _coerce_number(v), lines 94-96: the string s
NumberOfStr(s) == IF s = <<>> THEN PyNone ELSE NumberOfFloat(ParseFloat(s))

\* _coerce_number(v)
CoerceNumber(v) ==
    IF IsNoneOrEmpty(v) THEN PyNone
    ELSE IF v.t = "bool" THEN PyInt(IF v.b THEN 1 ELSE 0)
    ELSE IF v.t \in {"int", "float", "nonfinite"} THEN v
    ELSE NumberOfStr(Replace(Strip(Str(v)), ",", <<".">>))

DaysInMonth(year, month) ==
    IF month = 2
    THEN (IF year % 4 = 0 /\ (year % 100 # 0 \/ year % 400 = 0) THEN 29 ELSE 28)
    ELSE IF month \in {4, 6, 9, 11} THEN 30 ELSE 31

\* date.fromisoformat(s) succeeds, for the format every Python version takes:
\* YYYY-MM-DD
IsIsoDate(s) ==
    /\ Len(s) = 10
    /\ s[5] = "-" /\ s[8] = "-"
    /\ AllDigits(SubSeq(s, 1, 4)) /\ AllDigits(SubSeq(s, 6, 7)) /\ AllDigits(SubSeq(s, 9, 10))
    /\ LET year == DigitsValue(SubSeq(s, 1, 4))
           month == DigitsValue(SubSeq(s, 6, 7))
           day == DigitsValue(SubSeq(s, 9, 10))
       IN  /\ year >= 1
           /\ month \in 1..12
           /\ day >= 1 /\ day <= DaysInMonth(year, month)

\* _coerce_date(v), lines 113-121: the string s
DateOfStr(s) == IF s # <<>> /\ IsIsoDate(s) THEN PyStr(s) ELSE PyNone

\* _coerce_date(v), for JSON values (never date objects)
CoerceDate(v) == IF IsNoneOrEmpty(v) THEN PyNone ELSE DateOfStr(Strip(Str(v)))

\* the coerced value and the message when a non-empty val has none
Coerced(val, coerced, message) ==
    [coerced |-> coerced,
     error |-> IF ~IsNoneOrEmpty(val) /\ coerced = PyNone THEN message ELSE ""]

\* SELECT, lines 210-220: the string and the allowed values
Selected(coerced, allowed) ==
    [coerced |-> PyStr(coerced),
     error |-> IF allowed # {} /\ coerced \notin allowed THEN "Valore non ammesso." ELSE ""]

\* the branch of the validation loop for the field type of d (lines 181-220):
\* the coerced value and the error message, "" when there is none
CoerceField(d, val) ==
    CASE d.field_type = "text" ->
            [coerced |-> IF val = PyNone \/ IsStr(val) THEN val ELSE PyStr(Str(val)),
             error |-> ""]
      [] d.field_type = "number" -> Coerced(val, CoerceNumber(val), "Numero non valido.")
      [] d.field_type = "boolean" -> Coerced(val, CoerceBool(val), "Valore boolean non valido.")
      [] d.field_type = "date" ->
            Coerced(val, CoerceDate(val), "Data non valida (atteso YYYY-MM-DD).")
      [] d.field_type = "select" ->
            IF IsNoneOrEmpty(val) THEN [coerced |-> PyNone, error |-> ""]
            ELSE Selected(Str(val), {d.options[i] : i \in 1..Len(d.options)})
      [] OTHER -> [coerced |-> val, error |-> ""]

\* the key an incoming key is stored under (lines 165-172)
CanonicalOr(canonical_key, raw_key) == IF canonical_key # <<>> THEN canonical_key ELSE raw_key
TargetKey(alias_to_key, raw_key) == CanonicalOr(AliasGet(alias_to_key, NormKey(raw_key)), raw_key)

\* the mutant: the stored object is the base in every mode
Base_Always(existing, partial) == existing

\* start from existing if partial, else empty
Base(existing, partial) == IF partial THEN existing ELSE EmptyDict

\* first pass: the incoming items, in order, overlaid on `normalized`
RECURSIVE Overlay(_, _, _)
Overlay(normalized, items, alias_to_key) ==
    IF items = <<>> THEN normalized
    ELSE Overlay(DictSet(normalized, TargetKey(alias_to_key, Head(items).key), Head(items).val),
                 Tail(items), alias_to_key)

\* the mutant: a blank string counts as a value
RequiredMissing_NoneOnly(coerced) == coerced = PyNone

\* the required check after coercion
RequiredMissing(coerced) == coerced = PyNone \/ IsBlankStr(coerced)

\* lines 222-228: the coerced value is stored, the error recorded
Recorded(st, d, coerced, message) ==
    [normalized |-> DictSet(st.normalized, d.key, coerced),
     errors |-> IF message # "" THEN DictSet(st.errors, d.key, message) ELSE st.errors]

FieldChecked(st, d, r) ==
    Recorded(st, d, r.coerced,
             IF d.required /\ RequiredMissing(r.coerced) THEN "Campo obbligatorio." ELSE r.error)

\* one iteration of the validation loop (lines 177-228)
ValidateField(st, d) == FieldChecked(st, d, CoerceField(d, DictGet(st.normalized, d.key)))

\* the mutant: the loop stops at the first invalid field
RECURSIVE ValidateDefs_FailFast(_, _)
ValidateDefs_FailFast(st, defs) ==
    IF defs = <<>> \/ st.errors # EmptyDict THEN st
    ELSE ValidateDefs_FailFast(ValidateField(st, Head(defs)), Tail(defs))

\* the validation loop over maps.defs_by_key
RECURSIVE ValidateDefs(_, _)
ValidateDefs(st, defs) ==
    IF defs = <<>> THEN st
    ELSE ValidateDefs(ValidateField(st, Head(defs)), Tail(defs))

\* the mutant: None and blank strings are dropped whatever the key
Clean_EveryKey(normalized, defs) ==
    [k \in {x \in DOMAIN normalized :
                ~(normalized[x] = PyNone \/ IsBlankStr(normalized[x]))} |-> normalized[k]]

\* the mutant: every falsy value is dropped, False and 0 included
CleanField_Falsy(normalized, d, v) ==
    IF ~d.required /\ (v = PyNone \/ IsBlankStr(v) \/ v = PyStr(<<>>) \/ v = PyBool(FALSE) \/ v = PyInt(0))
    THEN DictPop(normalized, d.key)
    ELSE normalized

\* one iteration of the clean loop (lines 237-241)
CleanField(normalized, d, v) ==
    IF ~d.required /\ (v = PyNone \/ IsBlankStr(v)) THEN DictPop(normalized, d.key)
    ELSE normalized

\* clean: drop None and blank strings of known keys that are not required
RECURSIVE Clean(_, _)
Clean(normalized, defs) ==
    IF defs = <<>> THEN normalized
    ELSE Clean(CleanField(normalized, Head(defs), DictGet(normalized, Head(defs).key)),
               Tail(defs))

Skipped == [status |-> "skipped"]
NotAnObject == [status |-> "error", errors |-> "Deve essere un oggetto JSON."]
Invalid(errors) == [status |-> "error", errors |-> errors]
Normalized(result) == [status |-> "ok", is_none |-> result = EmptyDict, result |-> result]

\* lines 233-247: raise the errors, else clean and return
Outcome(st, defs) ==
    IF st.errors # EmptyDict THEN Invalid(st.errors)
    ELSE Normalized(Clean(st.normalized, defs))

\* lines 153-247, with maps = get_definition_maps(entity) and the base
Validated(maps, items, base) ==
    Outcome(ValidateDefs([normalized |-> Overlay(base, items, maps.alias_to_key),
                          errors |-> EmptyDict], maps.defs),
            maps.defs)

\* normalize_and_validate_custom_fields(entity=, incoming=, existing=, partial=)
\* over the table of definitions `table`
NormalizeAndValidateCustomFields(table, entity_name, incoming, existing, partial) ==
    IF incoming.kind = "none" THEN Skipped
    ELSE IF incoming.kind # "object" THEN NotAnObject
    ELSE Validated(GetDefinitionMaps(table, entity_name), incoming.items,
                   Base(existing, partial))

(***************************************************************************)
(* Custom fields: the calls checked (specification SpecCF)                 *)
(***************************************************************************)
k_citta == <<"c","i","t","t","a">>
k_city == <<"c","i","t","y">>
k_Citta_padded == <<" ","C","i","t","t","à"," ">>
k_comune == <<"c","o","m","u","n","e">>
k_nota == <<"n","o","t","a">>
k_peso == <<"p","e","s","o">>
k_attivo == <<"a","t","t","i","v","o">>
k_scadenza == <<"s","c","a","d","e","n","z","a">>
k_colore == <<"c","o","l","o","r","e">>

v_Roma == PyStr(<<"R","o","m","a">>)
v_Milano == PyStr(<<"M","i","l","a","n","o">>)
v_blank == PyStr(<<" "," ">>)
v_empty == PyStr(<<>>)
v_abc == PyStr(<<"a","b","c">>)
v_10 == PyStr(<<"1","0">>)

\* the definitions seed_defaults creates for citta, and a number field
DefCitta(required, is_active) ==
    Definition("inventory", k_citta, <<<<"C","i","t","t","à">>, k_city, k_citta>>, "text", required, <<>>,
               30, <<"C","i","t","t","à">>, is_active, NULL_TS)
DefPeso(required) ==
    Definition("inventory", k_peso, <<>>, "number", required, <<>>, 40, <<"P","e","s","o">>, TRUE, NULL_TS)
\* a definition whose alias is the key of DefCitta, sorted before or after it
DefComune(sort_order) ==
    Definition("inventory", k_comune, <<<<"C","i","t","t","a">>>>, "text", FALSE, <<>>, sort_order, <<"C","o","m","u","n","e">>,
               TRUE, NULL_TS)

\* tables of CustomFieldDefinition rows
T_Seed == {DefCitta(FALSE, TRUE), DefPeso(FALSE)}
T_Required == {DefCitta(TRUE, TRUE), DefPeso(TRUE)}
T_ConflictAfter == {DefCitta(FALSE, TRUE), DefComune(50)}
T_ConflictBefore == {DefCitta(FALSE, TRUE), DefComune(20)}
\* nothing applies: inactive, soft-deleted, or of another entity
T_NoneActive ==
    {DefCitta(FALSE, FALSE),
     Definition("inventory", k_peso, <<>>, "number", TRUE, <<>>, 40, <<"P","e","s","o">>, TRUE, DELETED_TS),
     Definition("customer", k_city, <<k_nota>>, "text", TRUE, <<>>, 10, <<"C","i","t","y">>, TRUE, NULL_TS)}
T_Types ==
    {Definition("inventory", k_attivo, <<>>, "boolean", TRUE, <<>>, 10, <<"A","t","t","i","v","o">>, TRUE, NULL_TS),
     Definition("inventory", k_scadenza, <<>>, "date", FALSE, <<>>, 10, <<"S","c","a","d","e","n","z","a">>, TRUE, NULL_TS),
     Definition("inventory", k_colore, <<>>, "select", FALSE, <<<<"r","o","s","s","o">>, <<"b","l","u">>>>, 10, <<"C","o","l","o","r","e">>,
                TRUE, NULL_TS),
     DefPeso(FALSE)}

\* d.options as the validation reads it: the items of a list, the keys of a
\* {value: label} mapping, nothing when the column is null (d.options or [])
OptionsOfList(items) == items
OptionsOfMapping(pairs) == [i \in DOMAIN pairs |-> pairs[i][1]]
OptionsAbsent == <<>>

k_taglia == <<"t","a","g","l","i","a">>
k_stato == <<"s","t","a","t","o">>
k_zona == <<"z","o","n","a">>
k_piano == <<"p","i","a","n","o">>
DefSelect(key, options) ==
    Definition("inventory", key, <<>>, "select", FALSE, options, 10, key, TRUE, NULL_TS)
\* select fields whose options are a mapping, an empty list, an empty
\* mapping, null
T_Select ==
    {DefSelect(k_taglia, OptionsOfMapping(<< <<<<"s">>, <<"S","m","a","l","l">>>>,
                                            <<<<"l">>, <<"L","a","r","g","e">>>> >>)),
     DefSelect(k_stato, OptionsOfList(<<>>)),
     DefSelect(k_piano, OptionsOfMapping(<<>>)),
     DefSelect(k_zona, OptionsAbsent)}

\* values submitted for a number field
NumberInputs ==
    {v_10, PyStr(<<"1","2",",","5">>), PyStr(<<"1","2",".","5">>), PyStr(<<"1","0",".","0">>), PyStr(<<" ","7"," ">>), PyStr(<<"-","3">>),
     PyStr(<<"1","e","2">>), PyStr(<<"1",",","0","0","0",".","5">>), v_abc, PyStr(<<"n","a","n">>), PyStr(<<"i","n","f">>), v_blank, v_empty,
     PyNone, PyInt(10), PyFloat(125, -1), PyBool(TRUE), PyList}

\* a scenario: tables, the values each incoming key may carry, stored objects
NumberScenario ==
    [tables |-> {T_Seed, T_Required},
     pool |-> [k \in {k_peso, k_citta} |-> IF k = k_peso THEN NumberInputs ELSE {v_Roma, v_blank}],
     existing |-> {EmptyDict,
                   [k \in {k_peso} |-> v_abc],
                   [k \in {k_peso} |-> v_10],
                   [k \in {k_peso, k_citta} |-> IF k = k_peso THEN PyInt(7) ELSE v_Roma]}]

AliasScenario ==
    [tables |-> {T_Seed, T_ConflictAfter, T_ConflictBefore, T_NoneActive},
     pool |-> [k \in {k_citta, k_city, k_Citta_padded, k_comune, k_nota} |->
                  CASE k = k_citta -> {v_Roma, v_empty}
                    [] k = k_city -> {v_Milano}
                    [] k = k_Citta_padded -> {PyStr(<<"B","a","r","i">>), PyNone}
                    [] k = k_comune -> {PyStr(<<"P","i","s","a">>)}
                    [] OTHER -> {PyStr(<<"x">>), v_empty, PyNone}],
     existing |-> {EmptyDict,
                   [k \in {k_city} |-> PyStr(<<"O","l","d">>)],
                   [k \in {k_citta, k_nota} |-> IF k = k_citta THEN PyStr(<<"O","l","d">>) ELSE v_empty]}]

TypesScenario ==
    [tables |-> {T_Types},
     pool |-> [k \in {k_attivo, k_scadenza, k_colore, k_peso} |->
                  CASE k = k_attivo -> {PyStr(<<"s","i">>), PyStr(<<"Y","e","s">>), PyBool(FALSE)}
                    [] k = k_scadenza -> {PyStr(<<"2","0","2","3","-","0","2","-","2","9">>), PyStr(<<"2","0","2","4","-","0","2","-","2","9">>)}
                    [] k = k_colore -> {PyStr(<<"v","e","r","d","e">>), PyStr(<<"r","o","s","s","o">>)}
                    [] OTHER -> {v_abc, v_10}],
     existing |-> {EmptyDict,
                   [k \in {k_attivo, k_colore} |-> IF k = k_attivo THEN PyBool(TRUE)
                                                   ELSE PyStr(<<"v","e","r","d","e">>)]}]

\* a boolean and a number field, neither required
T_Optional ==
    {Definition("inventory", k_attivo, <<>>, "boolean", FALSE, <<>>, 10, <<"A","t","t","i","v","o">>, TRUE, NULL_TS),
     DefPeso(FALSE)}

FalsyScenario ==
    [tables |-> {T_Optional},
     pool |-> [k \in {k_attivo, k_peso} |->
                  IF k = k_attivo THEN {PyBool(FALSE), PyNone}
                  ELSE {PyInt(0), v_empty, v_blank}],
     existing |-> {EmptyDict, [k \in {k_attivo} |-> PyBool(FALSE)]}]

SelectScenario ==
    [tables |-> {T_Select},
     pool |-> [k \in {k_taglia, k_stato, k_piano, k_zona} |->
                  IF k = k_taglia THEN {PyStr(<<"s">>), PyStr(<<"x","l">>)} ELSE {PyStr(<<"x">>)}],
     existing |-> {EmptyDict}]

Scenarios == {NumberScenario, AliasScenario, TypesScenario, SelectScenario, FalsyScenario}

Item(key, val) == [key |-> key, val |-> val]

\* the JSON objects of at most MaxIncoming members a scenario submits, as
\* the lists of their items (a dict keeps insertion order)
ItemLists(pool) ==
    LET items == {Item(k, v) : k \in DOMAIN pool, v \in UNION {pool[x] : x \in DOMAIN pool}}
        valid == {i \in items : i.val \in pool[i.key]}
    IN  UNION {{s \in [1..n -> valid] : \A i, j \in 1..n : i # j => s[i].key # s[j].key} :
               n \in 0..MaxIncoming}

CfCall(table, incoming, existing, partial) ==
    [table |-> table, entity |-> "inventory", incoming |-> incoming,
     existing |-> existing, partial |-> partial]

\* the calls of a scenario, and the calls whose incoming is not an object
\* (None, a JSON array, a JSON string)
IsCfInput(call) ==
    \/ \E sc \in Scenarios :
          \E table \in sc.tables, existing \in sc.existing, partial \in BOOLEAN :
            \E items \in ItemLists(sc.pool) :
                call = CfCall(table, [kind |-> "object", items |-> items], existing, partial)
    \/ \E kind \in {"none", "array", "string"}, partial \in BOOLEAN :
          call = CfCall(T_Seed, [kind |-> kind], EmptyDict, partial)

InitCF ==
    /\ entity = "inventory" /\ deleted_at = <<>> /\ audit_events = <<>>
    /\ resp = Response("none", 0, 0, {})
    /\ IsCfInput(cf_in)
    /\ cf_out = IdleCf
    /\ diff_in = IdleDiff /\ diff_out = IdleDiff
    /\ IdleOps

\* the serializer's validate() calls the function on the submitted object
Validate ==
    /\ cf_out = IdleCf
    /\ cf_out' = NormalizeAndValidateCustomFields(
                    cf_in.table, cf_in.entity, cf_in.incoming, cf_in.existing, cf_in.partial)
    /\ UNCHANGED <<cf_in, sdVars, diffVars, opsVars>>

NextCF == Validate

SpecCF == InitCF /\ [][NextCF]_vars

(***************************************************************************)
(* Audit: the diff of two instances and the masking of sensitive fields    *)
(***************************************************************************)
\* the alternatives of SENSITIVE_FIELD_RE, lower case (the pattern has re.I)
SensitiveWords ==
    {<<"p","a","s","s","w","o","r","d">>, <<"p","a","s","s">>, <<"p","w","d">>, <<"s","e","c","r","e","t">>, <<"t","o","k","e","n">>,
     <<"a","p","i","k","e","y">>, <<"a","p","i","_","k","e","y">>, <<"a","p","i","-","k","e","y">>,
     <<"p","r","i","v","a","t","e","k","e","y">>, <<"p","r","i","v","a","t","e","_","k","e","y">>, <<"p","r","i","v","a","t","e","-","k","e","y">>,
     <<"a","c","c","e","s","s","k","e","y">>, <<"a","c","c","e","s","s","_","k","e","y">>, <<"a","c","c","e","s","s","-","k","e","y">>}

\* SENSITIVE_FIELD_RE.search(field_name)
SensitiveSearch(field_name) == \E w \in SensitiveWords : Contains(Lower(field_name), w)

\* the placeholder, four bullet characters, written with asterisks
MASK == PyStr(<<"*","*","*","*">>)

\* to_primitive(value): None and the scalars are returned as they are, a
\* dict value by value, a list element by element (the lists of the model
\* are empty)
RECURSIVE ToPrimitive(_)
ToPrimitive(value) ==
    IF value = PyNone THEN PyNone
    ELSE IF value.t \in {"str", "int", "float", "nonfinite", "bool"} THEN value
    ELSE IF value.t = "dict" THEN PyDict([k \in DOMAIN value.d |-> ToPrimitive(value.d[k])])
    ELSE PyList

\* to_change_value(value), likewise; no model instance is compared here
RECURSIVE ToChangeValue(_)
ToChangeValue(value) ==
    IF value = PyNone THEN PyNone
    ELSE IF value.t \in {"str", "int", "float", "nonfinite", "bool"} THEN value
    ELSE IF value.t = "dict" THEN PyDict([k \in DOMAIN value.d |-> ToChangeValue(value.d[k])])
    ELSE PyList

\* to_change_value_for_field(field_name, value)
ToChangeValueForField(field_name, value) ==
    IF field_name # <<>> /\ SensitiveSearch(field_name)
    THEN (IF ~IsNoneOrEmpty(value) THEN MASK ELSE PyNone)
    ELSE ToChangeValue(value)

Change(from, to) == [from |-> from, to |-> to]

\* one iteration of the loop of diff_fields: b and a are the masked values
DiffField(changes, f, b, a) == IF b # a THEN DictSet(changes, f, Change(b, a)) ELSE changes

\* diff_fields(instance_before, instance_after, fields), from `changes` on
RECURSIVE DiffFieldsFrom(_, _, _, _)
DiffFieldsFrom(changes, instance_before, instance_after, fields) ==
    IF fields = <<>> THEN changes
    ELSE DiffFieldsFrom(
            DiffField(changes, Head(fields),
                      ToChangeValueForField(Head(fields), instance_before[Head(fields)]),
                      ToChangeValueForField(Head(fields), instance_after[Head(fields)])),
            instance_before, instance_after, Tail(fields))

DiffFields(instance_before, instance_after, fields) ==
    DiffFieldsFrom(EmptyDict, instance_before, instance_after, fields)

\* one iteration of the loop of _changes_from_validated
ChangedField(changes, k, before_raw, after_raw) ==
    IF ToPrimitive(before_raw) # ToPrimitive(after_raw)
    THEN DictSet(changes, k, Change(ToChangeValueForField(k, before_raw),
                                    ToChangeValueForField(k, after_raw)))
    ELSE changes

\* <ViewSet>._changes_from_validated(instance, validated), from `changes` on;
\* validated is the list of the submitted (field, value) items
RECURSIVE ChangesFromValidatedFrom(_, _, _)
ChangesFromValidatedFrom(changes, instance, validated) ==
    IF validated = <<>> THEN changes
    ELSE ChangesFromValidatedFrom(
            ChangedField(changes, Head(validated).key, instance[Head(validated).key],
                         Head(validated).val),
            instance, Tail(validated))

ChangesFromValidated(instance, validated) ==
    ChangesFromValidatedFrom(EmptyDict, instance, validated)

FieldValues == {PyNone, v_empty, PyStr(<<"o","l","d">>), PyStr(<<"n","e","w">>)}

\* the JSON field custom_fields and the objects it holds: a secret under a
\* key that matches the pattern, at depth one and two, and under the key of a
\* definition flagged is_sensitive
f_custom_fields == <<"c","u","s","t","o","m","_","f","i","e","l","d","s">>
k_password == <<"p","a","s","s","w","o","r","d">>
k_login == <<"l","o","g","i","n">>
k_token == <<"t","o","k","e","n">>
k_pin == <<"p","i","n">>
Object1(k, v) == PyDict([x \in {k} |-> v])
Object2(k1, v1, k2, v2) == PyDict([x \in {k1, k2} |-> IF x = k1 THEN v1 ELSE v2])
NestedValues ==
    {PyNone, Object1(k_nota, PyStr(<<"x">>)),
     Object1(k_password, PyStr(<<"o","l","d">>)), Object1(k_password, PyStr(<<"n","e","w">>)),
     Object2(k_nota, PyStr(<<"x">>), k_login, Object1(k_token, PyStr(<<"o","l","d">>))),
     Object2(k_nota, PyStr(<<"x">>), k_login, Object1(k_token, PyStr(<<"n","e","w">>))),
     Object1(k_pin, PyStr(<<"o","l","d">>)), Object1(k_pin, PyStr(<<"n","e","w">>))}

\* the values field f may hold
ValuesOf(f) == IF f = f_custom_fields THEN NestedValues ELSE FieldValues

\* the instances over the fields, each field with a value it may hold
Instances(fields) ==
    {inst \in [SeqRange(fields) -> FieldValues \cup NestedValues] :
        \A f \in SeqRange(fields) : inst[f] \in ValuesOf(f)}

\* the fields of the instances compared: some match the pattern, some do not
FieldLists ==
    {<<<<"o","s","_","p","w","d">>, <<"n","a","m","e">>>>, <<<<"A","P","I","-","K","e","y">>, <<"n","o","t","e","s">>>>, <<<<"c","o","m","p","a","s","s">>, <<"P","a","s","s","w","o","r","d">>>>,
     <<<<"h","o","s","t","n","a","m","e">>, <<"a","c","c","e","s","s","_","t","o","k","e","n">>>>,
     <<f_custom_fields>>}

\* validated_data as the items built from the instance after the update
RECURSIVE ItemsOf(_, _)
ItemsOf(instance, fields) ==
    IF fields = <<>> THEN <<>>
    ELSE <<Item(Head(fields), instance[Head(fields)])>> \o ItemsOf(instance, Tail(fields))

DiffCall(fields, instance_before, instance_after) ==
    [status |-> "call", fields |-> fields, before |-> instance_before, after |-> instance_after]

InitDiff ==
    /\ entity = "inventory" /\ deleted_at = <<>> /\ audit_events = <<>>
    /\ resp = Response("none", 0, 0, {})
    /\ cf_in = IdleCf /\ cf_out = IdleCf
    /\ \E fields \in FieldLists :
         \E instance_before, instance_after \in Instances(fields) :
            diff_in = DiffCall(fields, instance_before, instance_after)
    /\ diff_out = IdleDiff
    /\ IdleOps

\* audit.utils.diff_fields is applied to the two instances
CallDiffFields ==
    /\ diff_out = IdleDiff
    /\ diff_out' = [status |-> "diff_fields",
                    changes |-> DiffFields(diff_in.before, diff_in.after, diff_in.fields)]
    /\ UNCHANGED <<diff_in, sdVars, cfVars, opsVars>>

\* perform_update computes the changes from the validated data
CallChangesFromValidated ==
    /\ diff_out = IdleDiff
    /\ diff_out' = [status |-> "changes_from_validated",
                    changes |-> ChangesFromValidated(
                                   diff_in.before, ItemsOf(diff_in.after, diff_in.fields))]
    /\ UNCHANGED <<diff_in, sdVars, cfVars, opsVars>>

NextDiff == CallDiffFields \/ CallChangesFromValidated

SpecDiff == InitDiff /\ [][NextDiff]_vars

(***************************************************************************)
(* Claims about custom-field validation (specification SpecCF)             *)
(***************************************************************************)
IsNoneOrBlank(v) == v = PyNone \/ (v.t = "str" /\ Strip(v.s) = <<>>)

\* the call was made on a JSON object and has returned or raised
CfValidated == cf_in.incoming.kind = "object" /\ cf_out.status \in {"ok", "error"}
CfSucceeded == cf_in.incoming.kind = "object" /\ cf_out.status = "ok"
CfMaps == GetDefinitionMaps(cf_in.table, cf_in.entity)
\* the object after the incoming items are overlaid on the base
CfOverlaid ==
    Overlay(IF cf_in.partial THEN cf_in.existing ELSE EmptyDict,
            cf_in.incoming.items, CfMaps.alias_to_key)

\* the active definitions whose key or alias has the normalized spelling of raw_key
Matching(defs, raw_key) ==
    {d \in SeqRange(defs) :
        NormKey(raw_key) \in {NormKey(d.key)} \cup {NormKey(d.aliases[i]) : i \in DOMAIN d.aliases}}

\* the canonical keys a matching incoming key may be stored under: its own
\* spelling when that is the key of an active definition
CanonicalKeys(defs, raw_key) ==
    IF \E d \in SeqRange(defs) : d.key = raw_key THEN {raw_key}
    ELSE {d.key : d \in Matching(defs, raw_key)}

KeysCanonicalized(defs, items, base, result) ==
    \A i \in DOMAIN items :
        IF Matching(defs, items[i].key) = {}
        THEN items[i].key \in DOMAIN result /\ result[items[i].key] = items[i].val
        ELSE /\ (/\ items[i].key \notin CanonicalKeys(defs, items[i].key)
                 /\ items[i].key \notin DOMAIN base)
                    => items[i].key \notin DOMAIN result
             /\ (/\ ~IsNoneOrBlank(items[i].val)
                 /\ \A j \in DOMAIN items : j > i =>
                        Matching(defs, items[j].key) \cap Matching(defs, items[i].key) = {})
                    => CanonicalKeys(defs, items[i].key) \cap DOMAIN result # {}

\* C4 as stated: after a successful pass every incoming key whose normalized
\* spelling equals the normalized key or an alias of an active definition is
\* stored under that definition's canonical key and not under the submitted
\* spelling; every other incoming key is kept verbatim.
C4_KeysCanonicalized ==
    CfSucceeded =>
        KeysCanonicalized(CfMaps.defs, cf_in.incoming.items,
                          IF cf_in.partial THEN cf_in.existing ELSE EmptyDict,
                          cf_out.result)

RequiredReported(defs, overlaid, out) ==
    \A d \in SeqRange(defs) :
        (d.required /\ IsNoneOrBlank(DictGet(overlaid, d.key)))
            => (out.status = "error" /\ d.key \in DOMAIN out.errors)

\* d is required, absent from incoming, and the existing object of a partial
\* update holds a non-empty value under its key
FallsBack(d, alias_to_key, items, existing, partial) ==
    /\ partial /\ d.required
    /\ \A i \in DOMAIN items : TargetKey(alias_to_key, items[i].key) # d.key
    /\ d.key \in DOMAIN existing
    /\ ~IsNoneOrEmpty(existing[d.key])

FieldPasses(out, key) == out.status = "ok" \/ key \notin DOMAIN out.errors

\* the field type of d accepts v and v is not blank
Accepted(d, r) == r.error = "" /\ ~IsNoneOrBlank(r.coerced)

FallbackPasses(maps, items, existing, partial, out) ==
    \A d \in SeqRange(maps.defs) :
        FallsBack(d, maps.alias_to_key, items, existing, partial) => FieldPasses(out, d.key)

FallbackPassesWhenAccepted(maps, items, existing, partial, out) ==
    \A d \in SeqRange(maps.defs) :
        (/\ FallsBack(d, maps.alias_to_key, items, existing, partial)
         /\ Accepted(d, CoerceField(d, existing[d.key])))
            => FieldPasses(out, d.key)

\* C5 as stated: a required field that is absent, None or blank after the
\* overlay fails validation with an error under its canonical key; a required
\* field absent from incoming passes when the existing object of a partial
\* update holds a non-empty value for it.
C5_RequiredEnforced ==
    CfValidated =>
        /\ RequiredReported(CfMaps.defs, CfOverlaid, cf_out)
        /\ FallbackPasses(CfMaps, cf_in.incoming.items, cf_in.existing, cf_in.partial, cf_out)

\* C5, amended: a required field that is absent, None or blank after the
\* overlay fails validation with an error under its canonical key; a required
\* field absent from incoming passes when the existing object of a partial
\* update holds, under the canonical key, a non-blank value that the field's
\* type accepts.
C5_RequiredEnforcedOnAccepted ==
    CfValidated =>
        /\ RequiredReported(CfMaps.defs, CfOverlaid, cf_out)
        /\ FallbackPassesWhenAccepted(CfMaps, cf_in.incoming.items, cf_in.existing,
                                      cf_in.partial, cf_out)

\* a partial update submitted a blank string for a required field and left
\* out another required field that the existing object holds: the first is
\* reported, the second passes
C5_Witness ==
    /\ CfValidated /\ cf_in.partial /\ cf_out.status = "error"
    /\ \E i \in DOMAIN cf_in.incoming.items :
          /\ IsBlankStr(cf_in.incoming.items[i].val)
          /\ cf_in.incoming.items[i].key \in DOMAIN cf_out.errors
    /\ \E d \in SeqRange(CfMaps.defs) :
          /\ FallsBack(d, CfMaps.alias_to_key, cf_in.incoming.items, cf_in.existing,
                       cf_in.partial)
          /\ d.key \notin DOMAIN cf_out.errors

FieldInvalid(d, r) == r.error # "" \/ (d.required /\ IsNoneOrBlank(r.coerced))
InvalidKeys(defs, overlaid) ==
    {d.key : d \in {x \in SeqRange(defs) :
                        FieldInvalid(x, CoerceField(x, DictGet(overlaid, x.key)))}}
AllReported(invalid, out) ==
    IF invalid = {} THEN out.status = "ok"
    ELSE /\ out.status = "error"
         /\ DOMAIN out.errors = invalid
         /\ "result" \notin DOMAIN out

\* C6: when known fields of the submitted object are invalid, a single
\* validation error is raised whose map has an entry for every invalid field
\* (not only the first), and no normalized object is returned.
C6_AllErrorsReported ==
    CfValidated => AllReported(InvalidKeys(CfMaps.defs, CfOverlaid), cf_out)

\* an error that reports two or more fields
C6_Witness ==
    /\ CfValidated /\ cf_out.status = "error"
    /\ Cardinality(DOMAIN cf_out.errors) >= 2

\* no incoming key is stored under key k
NotOverridden(alias_to_key, items, k) ==
    \A i \in DOMAIN items : TargetKey(alias_to_key, items[i].key) # k

RetainedVerbatim(alias_to_key, items, existing, result) ==
    \A k \in DOMAIN existing :
        NotOverridden(alias_to_key, items, k) => (k \in DOMAIN result /\ result[k] = existing[k])

\* what remains of the existing value v of key k: verbatim when k is no
\* canonical key, else as the definition d of k coerces it
RetainedAs(k, v, known, result) ==
    IF known = {} THEN k \in DOMAIN result /\ result[k] = v
    ELSE \A d \in known :
            IF ~d.required /\ IsNoneOrBlank(CoerceField(d, v).coerced)
            THEN k \notin DOMAIN result
            ELSE k \in DOMAIN result /\ result[k] = CoerceField(d, v).coerced

RetainedRevalidated(maps, items, existing, result) ==
    \A k \in DOMAIN existing :
        NotOverridden(maps.alias_to_key, items, k)
            => RetainedAs(k, existing[k], {d \in SeqRange(maps.defs) : d.key = k}, result)

\* non-partial mode: the outcome is that of the same call with nothing
\* stored, and keys held only by the existing object are absent
IncomingAlone(call, alias_to_key, out) ==
    /\ out = NormalizeAndValidateCustomFields(call.table, call.entity, call.incoming,
                                              EmptyDict, FALSE)
    /\ out.status = "ok" =>
          \A k \in DOMAIN call.existing :
              NotOverridden(alias_to_key, call.incoming.items, k) => k \notin DOMAIN out.result

\* C7 as stated: in partial mode every key of the existing object that no
\* incoming key overrides is retained with its value; in non-partial mode the
\* result depends on the incoming object alone and keys present only in the
\* existing object are absent from it.
C7_ExistingRetained ==
    CfValidated =>
        IF cf_in.partial
        THEN cf_out.status = "ok" =>
                RetainedVerbatim(CfMaps.alias_to_key, cf_in.incoming.items, cf_in.existing,
                                 cf_out.result)
        ELSE IncomingAlone(cf_in, CfMaps.alias_to_key, cf_out)

\* C7, amended: in partial mode every key of the existing object that no
\* incoming key overrides and that is not the canonical key of an active
\* definition is retained with its value, and a retained canonical key is
\* validated again: kept with its coerced value, or dropped when that is None
\* or blank and the field is not required; in non-partial mode the result
\* depends on the incoming object alone and keys present only in the existing
\* object are absent from it.
C7_ExistingRevalidated ==
    CfValidated =>
        IF cf_in.partial
        THEN cf_out.status = "ok" =>
                RetainedRevalidated(CfMaps, cf_in.incoming.items, cf_in.existing, cf_out.result)
        ELSE IncomingAlone(cf_in, CfMaps.alias_to_key, cf_out)

\* a partial update kept a stored key that no incoming key overrides, with a
\* value other than the stored one
C7_Witness ==
    /\ CfSucceeded /\ cf_in.partial
    /\ \E k \in DOMAIN cf_in.existing \cap DOMAIN cf_out.result :
          /\ NotOverridden(CfMaps.alias_to_key, cf_in.incoming.items, k)
          /\ cf_out.result[k] # cf_in.existing[k]

UnknownKept(alias_to_key, items, result) ==
    \A i \in DOMAIN items :
        NormKey(items[i].key) \notin DOMAIN alias_to_key
            => (items[i].key \in DOMAIN result /\ result[items[i].key] = items[i].val)

\* the keys of the overlaid object that are removed
Removable(defs, overlaid) ==
    {d.key : d \in {x \in SeqRange(defs) :
                        ~x.required /\ IsNoneOrBlank(DictGet(overlaid, x.key))}}

OnlyBlankKnownRemoved(removable, overlaid, out) ==
    /\ DOMAIN out.result = DOMAIN overlaid \ removable
    /\ out.is_none = (DOMAIN overlaid \subseteq removable)

\* C8: after a successful pass every key that matches no definition is in the
\* result with exactly its submitted value (None and the empty string
\* included); only None or blank values of known fields that are not required
\* are removed; and None is returned exactly when no key remains.
C8_UnknownKeysKept ==
    CfSucceeded =>
        /\ UnknownKept(CfMaps.alias_to_key, cf_in.incoming.items, cf_out.result)
        /\ OnlyBlankKnownRemoved(Removable(CfMaps.defs, CfOverlaid), CfOverlaid, cf_out)

\* an unknown key submitted with None or an empty string is in the result,
\* next to a blank known field that was removed
C8_Witness ==
    /\ CfSucceeded
    /\ \E i \in DOMAIN cf_in.incoming.items :
          /\ NormKey(cf_in.incoming.items[i].key) \notin DOMAIN CfMaps.alias_to_key
          /\ IsNoneOrEmpty(cf_in.incoming.items[i].val)
          /\ cf_in.incoming.items[i].key \in DOMAIN cf_out.result
    /\ DOMAIN CfOverlaid # DOMAIN cf_out.result

\* a numeric string: float() takes it, comma read as dot, and gives a number
IsNumeral(f) == f.ok /\ f.v.t = "float"

\* what C9 says of the string s submitted for the number field d
NumberStringHandled(d, s, out) ==
    IF s = <<>> THEN d.required \/ FieldPasses(out, d.key)
    ELSE IF IsNumeral(ParseFloat(Replace(s, ",", <<".">>)))
    THEN /\ FieldPasses(out, d.key)
         /\ out.status = "ok" => (d.key \in DOMAIN out.result
                                  /\ out.result[d.key].t \in {"int", "float"})
    ELSE out.status = "error" /\ d.key \in DOMAIN out.errors

NumberStringsHandled(defs, items, out) ==
    \A d \in {x \in SeqRange(defs) : x.field_type = "number"} :
        \A i \in DOMAIN items :
            (items[i].key = d.key /\ items[i].val.t = "str")
                => NumberStringHandled(d, items[i].val.s, out)

\* C9 as stated, for the strings submitted under the key of a number field: a
\* numeric string (comma or dot as decimal separator) is accepted and stored
\* as a number, "10" as the integer 10 and "12,5" as 12.5; the empty string
\* gives no value and no error; every other string gives a validation error
\* under the field's key.
C9_NumberStrings ==
    CfValidated =>
        /\ NumberStringsHandled(CfMaps.defs, cf_in.incoming.items, cf_out)
        /\ \A i \in DOMAIN cf_in.incoming.items :
              (cf_out.status = "ok" /\ cf_in.incoming.items[i].key = k_peso
               /\ k_peso \in DOMAIN cf_out.result /\ k_peso \in DOMAIN CfMaps.alias_to_key)
                => /\ cf_in.incoming.items[i].val = v_10 => cf_out.result[k_peso] = PyInt(10)
                   /\ cf_in.incoming.items[i].val = PyStr(<<"1","2",",","5">>)
                         => cf_out.result[k_peso] = PyFloat(125, -1)

(***************************************************************************)
(* Claims about the audit diff (specification SpecDiff)                    *)
(***************************************************************************)
\* field f went from one non-empty value to a different non-empty value
SensitiveChanged(f, before, after) ==
    /\ SensitiveSearch(f)
    /\ ~IsNoneOrEmpty(before) /\ ~IsNoneOrEmpty(after)
    /\ before # after

SensitiveChangesMasked(call, changes) ==
    \A f \in SeqRange(call.fields) :
        SensitiveChanged(f, call.before[f], call.after[f])
            => (f \in DOMAIN changes /\ changes[f] = Change(MASK, MASK))

\* no value of a sensitive field is recorded in clear
NoPlaintext(changes) ==
    \A f \in DOMAIN changes :
        SensitiveSearch(f) => {changes[f].from, changes[f].to} \subseteq {MASK, PyNone}

\* C10 as stated: when a field whose name matches the sensitive pattern goes
\* from one non-empty value to a different non-empty value, the diff has an
\* entry for it whose from and to are both the placeholder, and no plaintext
\* value of it is recorded; for diff_fields and for the validated-data diff.
C10_SensitiveChangeMasked ==
    diff_out.status \in {"diff_fields", "changes_from_validated"} =>
        /\ SensitiveChangesMasked(diff_in, diff_out.changes)
        /\ NoPlaintext(diff_out.changes)

\* the keys of the custom-field definitions flagged is_sensitive for the entity
SensitiveDefinitionKeys == {k_pin}

\* value with every nested secret replaced by the placeholder: the values,
\* at any depth, under a key that matches the pattern or is flagged
RECURSIVE Redact(_)
Redact(value) ==
    IF value = PyNone \/ value.t # "dict" THEN value
    ELSE PyDict([k \in DOMAIN value.d |->
                    IF SensitiveSearch(k) \/ k \in SensitiveDefinitionKeys
                    THEN (IF IsNoneOrEmpty(value.d[k]) THEN PyNone ELSE MASK)
                    ELSE Redact(value.d[k])])

\* the changes the function that produced `out` records for the write `after`
RecordedFor(out, before, after, fields) ==
    IF out.status = "diff_fields" THEN DiffFields(before, after, fields)
    ELSE ChangesFromValidated(before, ItemsOf(after, fields))

\* every write that changes field f to a value differing from call.after[f]
\* only in nested secrets is recorded as call is
SecretsIndistinguishable(call, out, f) ==
    \A other \in ValuesOf(f) :
        (/\ Redact(other) = Redact(call.after[f])
         /\ call.before[f] # call.after[f] /\ call.before[f] # other)
            => RecordedFor(out, call.before, [call.after EXCEPT ![f] = other], call.fields)
                  = out.changes

\* C11 as stated: when a changed field holds a nested object, every nested
\* value under a key that matches the sensitive pattern or whose definition
\* is flagged is_sensitive is masked, at any depth: two writes that differ
\* only in such nested secret values produce identical recorded changes.
C11_NestedSecretsMasked ==
    diff_out.status \in {"diff_fields", "changes_from_validated"} =>
        \A f \in SeqRange(diff_in.fields) : SecretsIndistinguishable(diff_in, diff_out, f)

(***************************************************************************)
(* Authentication and the audit trail (specification SpecAuth)             *)
(***************************************************************************)
UserNames == {"anna", "bruno"}
\* the usernames a login may attempt: the accounts and one that never existed
AttemptedNames == UserNames \cup {"ghost"}
ANONYMOUS == ""
NoFault == [kind |-> "none", at |-> 0]
\* the k-th write of kind `kind` (an audit row, an entity row) raised
Fault(kind, at) == [kind |-> kind, at |-> at]

\* an AuditEvent row: actor is the user's name, ANONYMOUS for NULL
ActorEvent(action, actor, object_id, object_repr) ==
    [action |-> action, actor |-> actor, object_id |-> object_id, object_repr |-> object_repr]

\* log_event(actor=, action=, instance=): the row AuditEvent.objects.create writes
LogEventBy(events, actor, action, object_id, object_repr) ==
    Append(events, ActorEvent(action, actor, object_id, object_repr))

\* django.contrib.auth.authenticate with the default ModelBackend: the user
\* when the credentials match and the user is active, else None (ANONYMOUS)
Authenticate(table, username, password_ok) ==
    IF username \in DOMAIN table /\ password_ok /\ table[username] = "active"
    THEN username ELSE ANONYMOUS

\* login_view calls log_auth_attempt(username=, success=, request=): the
\* function has no parameter `success` and requires `action`, so the call
\* raises TypeError, which the caller's try/except swallows: no row is written
LogAuthAttemptFromLoginView(events) == events

\* audit.signals.audit_login, the receiver of user_logged_in: log_event in a
\* try/except
AuditLogin(events, user, raises) ==
    IF raises THEN events ELSE LogEventBy(events, user, "login", user, user)

\* POST /api/auth/login/
Login(username, password_ok, raises) ==
    /\ Len(audit_events) < MaxAudit
    /\ LET user == Authenticate(users, username, password_ok) IN
          IF user = ANONYMOUS
          THEN /\ audit_events' = LogAuthAttemptFromLoginView(audit_events)
               /\ resp' = Response("login", 0, 401, {})
               /\ fault' = NoFault
               /\ UNCHANGED session
          ELSE IF users[user] # "active"
          THEN /\ audit_events' = LogAuthAttemptFromLoginView(audit_events)
               /\ resp' = Response("login", 0, 403, {})
               /\ fault' = NoFault
               /\ UNCHANGED session
          ELSE /\ session' = user
               /\ audit_events' =
                     LogAuthAttemptFromLoginView(AuditLogin(audit_events, user, raises))
               /\ resp' = Response("login", 0, 200, {})
               /\ fault' = IF raises THEN Fault("audit", 1) ELSE NoFault
    /\ UNCHANGED <<users, entity, deleted_at, cfVars, diffVars, moreVars, dueVars, planVars, uniqVars>>

\* POST /api/auth/logout/
Logout(raises) ==
    /\ Len(audit_events) < MaxAudit
    /\ audit_events' =
          IF session # ANONYMOUS /\ ~raises
          THEN LogEventBy(audit_events, session, "logout", session, session)
          ELSE audit_events
    /\ fault' = IF session # ANONYMOUS /\ raises THEN Fault("audit", 1) ELSE NoFault
    /\ session' = ANONYMOUS
    /\ resp' = Response("logout", 0, 200, {})
    /\ UNCHANGED <<users, entity, deleted_at, cfVars, diffVars, moreVars, dueVars, planVars, uniqVars>>

\* a write of a viewset by the user of the session, logged by log_event
LoggedWrite(action, object_id) ==
    /\ session # ANONYMOUS
    /\ Len(audit_events) < MaxAudit
    /\ audit_events' = LogEventBy(audit_events, session, action, object_id, object_id)
    /\ resp' = Response(action, 0, 200, {})
    /\ fault' = NoFault
    /\ UNCHANGED <<users, session, entity, deleted_at, cfVars, diffVars, moreVars, dueVars, planVars,
                   uniqVars>>

\* AuditEvent.actor is a ForeignKey with on_delete=SET_NULL
ActorSetNull(events, user) ==
    [i \in DOMAIN events |->
        IF events[i].actor = user THEN [events[i] EXCEPT !.actor = ANONYMOUS] ELSE events[i]]

\* a user is deleted (admin site): the rows that reference the user follow
\* their on_delete rule, the user's sessions are no longer authenticated
DeleteUser(user) ==
    /\ user \in DOMAIN users
    /\ users' = [u \in DOMAIN users \ {user} |-> users[u]]
    /\ audit_events' = ActorSetNull(audit_events, user)
    /\ session' = IF session = user THEN ANONYMOUS ELSE session
    /\ resp' = Response("delete_user", 0, 200, {})
    /\ fault' = NoFault
    /\ UNCHANGED <<entity, deleted_at, cfVars, diffVars, moreVars, dueVars, planVars, uniqVars>>

\* /api/audit-events/ : a ReadOnlyModelViewSet serves GET, every other method is 405
AuditApiRequest(method) ==
    /\ resp' = Response("audit_api", 0, IF method = "GET" THEN 200 ELSE 405, {})
    /\ fault' = NoFault
    /\ UNCHANGED <<users, session, audit_events, entity, deleted_at, cfVars, diffVars, moreVars, dueVars,
                   planVars, uniqVars>>

\* the admin site on AuditEvent: has_add/change/delete_permission return False
AuditAdminRequest(op) ==
    /\ resp' = Response(op, 0, 403, {})
    /\ fault' = NoFault
    /\ UNCHANGED <<users, session, audit_events, entity, deleted_at, cfVars, diffVars, moreVars, dueVars,
                   planVars, uniqVars>>

InitAuth ==
    /\ entity = "customer" /\ deleted_at = <<>> /\ audit_events = <<>>
    /\ resp = Response("none", 0, 0, {})
    /\ cf_in = IdleCf /\ cf_out = IdleCf
    /\ diff_in = IdleDiff /\ diff_out = IdleDiff
    /\ fault = NoFault
    /\ \E present \in SUBSET UserNames : users \in [present -> {"active", "disabled"}]
    /\ session = ANONYMOUS
    /\ due_in = Idle /\ due_out = Idle
    /\ plan = Idle /\ last_event = Idle
    /\ inventories = <<>>
    /\ IdleMore

NextAuth ==
    \/ \E username \in AttemptedNames, password_ok, raises \in BOOLEAN :
          Login(username, password_ok, raises)
    \/ \E raises \in BOOLEAN : Logout(raises)
    \/ \E action \in {"create", "update", "delete", "restore"} : LoggedWrite(action, "1")
    \/ \E user \in UserNames : DeleteUser(user)
    \/ \E method \in {"GET", "POST", "PUT", "PATCH", "DELETE"} : AuditApiRequest(method)
    \/ \E op \in {"admin_add", "admin_change", "admin_delete"} : AuditAdminRequest(op)

SpecAuth == InitAuth /\ [][NextAuth]_vars

\* C12 as stated: the audit log is append-only; across every step each event
\* that exists is still present afterwards and each of its fields, the actor
\* included, keeps the value it was created with.
C12_AppendOnly ==
    [][\A i \in DOMAIN audit_events :
          i \in DOMAIN audit_events' /\ audit_events'[i] = audit_events[i]]_vars

\* the event a login attempt must leave: its action and the attempted username
LoginRecorded(before, after, action, username) ==
    /\ Len(after) = Len(before) + 1
    /\ after[Len(after)].action = action
    /\ after[Len(after)].object_repr = username

\* C14 as stated: every login attempt through the routed endpoint appends one
\* audit event that records the attempted username, with action login when it
\* succeeds and login_failed when it fails (attempts whose audit write itself
\* raised are left aside).
C14_LoginAttemptsLogged ==
    [][(resp'.op = "login" /\ fault'.kind = "none") =>
          \E username \in AttemptedNames :
              LoginRecorded(audit_events, audit_events',
                            IF resp'.status = 200 THEN "login" ELSE "login_failed", username)]_vars

(***************************************************************************)
(* Entity writes when a database write raises (specification SpecFault)    *)
(***************************************************************************)
\* the writes of a request that may raise: none, the save of the entity row,
\* the creation of the audit row
FaultKinds == {"none", "save", "audit"}

\* InventoryViewSet wraps create and update in transaction.atomic();
\* CustomerViewSet does not, and no viewset wraps destroy, restore, bulk_restore
InAtomic(op) == entity = "inventory" /\ op \in {"create", "update"}

\* the outcome of a handler that saves row id with new_deleted_at (a new row
\* when id is past the table) and then calls log_event, when `kind` raises:
\* an exception leaves the handler, statements already committed stay
\* unless the handler runs in a transaction
SaveThenLog(op, action, id, new_deleted_at, kind, status) ==
    LET saved == IF id \in DOMAIN deleted_at
                 THEN [deleted_at EXCEPT ![id] = new_deleted_at]
                 ELSE Append(deleted_at, new_deleted_at)
    IN  /\ deleted_at' = IF kind = "save" \/ (kind = "audit" /\ InAtomic(op))
                         THEN deleted_at ELSE saved
        /\ audit_events' = IF kind = "none"
                           THEN LogEventBy(audit_events, session, action, id, id)
                           ELSE audit_events
        /\ resp' = IF kind = "none" THEN Response(op, id, status, {id})
                   ELSE Response(op, id, 500, {})
        /\ fault' = IF kind = "none" THEN NoFault ELSE Fault(kind, 1)

\* the request is of an authenticated user with the model permissions, and
\* the audit rows it writes fit the bound
MayWrite(n) == session # ANONYMOUS /\ Len(audit_events) + n <= MaxAudit

FaultFrame == UNCHANGED <<entity, users, session, cfVars, diffVars, moreVars, dueVars, planVars, uniqVars>>

\* POST /<entity>/ : create, perform_create
CreateOrFail(kind) ==
    /\ MayWrite(1) /\ Len(deleted_at) < MaxRows
    /\ SaveThenLog("create", "create", Len(deleted_at) + 1, NULL_TS, kind, 201)
    /\ FaultFrame

\* PUT /<entity>/<id>/ : update, perform_update
UpdateOrFail(id, new_deleted_at, kind) ==
    /\ MayWrite(1) /\ id \in ActiveRows
    /\ SaveThenLog("update", "update", id, new_deleted_at, kind, 200)
    /\ FaultFrame

\* DELETE /<entity>/<id>/ : perform_destroy
DestroyOrFail(id, kind) ==
    /\ MayWrite(1) /\ id \in ActiveRows
    /\ SaveThenLog("destroy", "delete", id, DELETED_TS, kind, 204)
    /\ FaultFrame

\* POST /<entity>/<id>/restore/
RestoreOrFail(id, kind) ==
    /\ MayWrite(1) /\ id \in DeletedRows
    /\ SaveThenLog("restore", "restore", id, NULL_TS, kind, 204)
    /\ FaultFrame

\* the rows of `order` saved when the loop of bulk_restore meets the fault at
\* its k-th row (k = 0: no fault)
SavedRows(order, k, kind) ==
    {order[i] : i \in {j \in DOMAIN order : k = 0 \/ j < k \/ (j = k /\ kind = "audit")}}
\* the rows of `order` logged, in order
LoggedRows(order, k) == IF k = 0 THEN order ELSE SubSeq(order, 1, k - 1)

RECURSIVE LogRestores(_, _, _)
LogRestores(events, actor, ids) ==
    IF ids = <<>> THEN events
    ELSE LogRestores(LogEventBy(events, actor, "restore", Head(ids), Head(ids)), actor, Tail(ids))

\* POST /<entity>/bulk_restore/ : the loop saves and logs row after row,
\* outside any transaction
BulkRestoreOrFail(ids, k, kind) ==
    /\ session # ANONYMOUS /\ ids # {}
    /\ \E order \in Orders({i \in AllRows : i \in ids /\ deleted_at[i] # NULL_TS}) :
          /\ (k = 0 /\ kind = "none") \/ (k \in DOMAIN order /\ kind # "none")
          /\ Len(audit_events) + Len(LoggedRows(order, k)) <= MaxAudit
          /\ deleted_at' = [i \in AllRows |->
                               IF i \in SavedRows(order, k, kind) THEN NULL_TS ELSE deleted_at[i]]
          /\ audit_events' = LogRestores(audit_events, session, LoggedRows(order, k))
          /\ resp' = IF k = 0 THEN Response("bulk_restore", 0, 200, SeqRange(order))
                     ELSE Response("bulk_restore", 0, 500, SeqRange(order))
          /\ fault' = IF k = 0 THEN NoFault ELSE Fault(kind, k)
    /\ FaultFrame

\* the sessions of the user: Login and Logout, the tables untouched
InitFault ==
    /\ entity \in AuditedEntities
    /\ deleted_at \in UNION {[1..n -> {NULL_TS, DELETED_TS}] : n \in 0..MaxRows}
    /\ audit_events = <<>>
    /\ resp = Response("none", 0, 0, {})
    /\ cf_in = IdleCf /\ cf_out = IdleCf
    /\ diff_in = IdleDiff /\ diff_out = IdleDiff
    /\ fault = NoFault
    /\ users = [u \in {"anna"} |-> "active"]
    /\ session \in {ANONYMOUS, "anna"}
    /\ due_in = Idle /\ due_out = Idle
    /\ plan = Idle /\ last_event = Idle
    /\ inventories = <<>>
    /\ IdleMore

NextFault ==
    \/ \E kind \in FaultKinds : CreateOrFail(kind)
    \/ \E id \in RowIds, ts \in {NULL_TS, DELETED_TS}, kind \in FaultKinds :
          UpdateOrFail(id, ts, kind)
    \/ \E id \in RowIds, kind \in FaultKinds : DestroyOrFail(id, kind)
    \/ \E id \in RowIds, kind \in FaultKinds : RestoreOrFail(id, kind)
    \/ \E ids \in SUBSET RowIds, k \in 0..MaxRows, kind \in FaultKinds :
          BulkRestoreOrFail(ids, k, kind)
    \/ \E password_ok, raises \in BOOLEAN : Login("anna", password_ok, raises)
    \/ \E raises \in BOOLEAN : Logout(raises)

SpecFault == InitFault /\ [][NextFault]_vars

\* the state change of the operation answered by r is in the state (table
\* and session given)
Persisted(r, table, user) ==
    CASE r.op = "create" -> r.id \in DOMAIN table
      [] r.op = "destroy" -> table[r.id] = DELETED_TS
      [] r.op = "restore" -> table[r.id] = NULL_TS
      [] r.op = "login" -> user # ANONYMOUS
      [] r.op = "logout" -> user = ANONYMOUS
      [] OTHER -> TRUE

\* C13 as stated: when the audit write of a login, a logout or an entity
\* create, update, soft-delete or restore raises, the failure does not reach
\* the caller: the success response is returned and the state change of the
\* operation is persisted.
C13_AuditFailureSwallowed ==
    [][(/\ fault'.kind = "audit"
        /\ resp'.op \in {"login", "logout", "create", "update", "destroy", "restore"})
          => (/\ resp'.status \in {200, 201, 204}
              /\ Persisted(resp', deleted_at', session'))]_vars

\* C15 as stated: a bulk_restore that fails at its k-th row (the save or the
\* audit event) leaves none of the rows restored, and an entity create or
\* update and its audit event are persisted together or not at all.
C15_AllOrNothing ==
    [][/\ (resp'.op = "bulk_restore" /\ resp'.status = 500)
             => (deleted_at' = deleted_at /\ audit_events' = audit_events)
       /\ resp'.op \in {"create", "update"}
             => \/ (deleted_at' = deleted_at /\ audit_events' = audit_events)
                \/ (resp'.status \in {200, 201} /\ Len(audit_events') = Len(audit_events) + 1)]_vars

(***************************************************************************)
(* Maintenance due dates (specification SpecDue)                           *)
(***************************************************************************)
\* datetime.date values, and the outcomes of a call that does not return one
PyDate(year, month, day) == [t |-> "date", year |-> year, month |-> month, day |-> day]
Raises(exc) == [t |-> "raise", exc |-> exc]
IsDate(v) == v.t = "date"

\* the days before 1 January of year, and before the first of month
DaysBeforeYear(year) ==
    (year - 1) * 365 + (year - 1) \div 4 - (year - 1) \div 100 + (year - 1) \div 400
RECURSIVE DaysBeforeMonth(_, _)
DaysBeforeMonth(year, month) ==
    IF month = 1 THEN 0
    ELSE DaysBeforeMonth(year, month - 1) + DaysInMonth(year, month - 1)

\* date.toordinal(): 1 for 0001-01-01
ToOrdinal(d) == DaysBeforeYear(d.year) + DaysBeforeMonth(d.year, d.month) + d.day

\* date.fromordinal(n), n in 1..3652059 (date.max, 9999-12-31)
FromOrdinal(n) ==
    LET n400 == (n - 1) \div 146097
        r400 == (n - 1) % 146097
        n100 == r400 \div 36524
        r100 == r400 % 36524
        n4 == r100 \div 1461
        r4 == r100 % 1461
        n1 == r4 \div 365
        year == n400 * 400 + n100 * 100 + n4 * 4 + n1 + 1
    IN  IF n1 = 4 \/ n100 = 4 THEN PyDate(year - 1, 12, 31)
        ELSE LET rest == n - DaysBeforeYear(year)
                 month == CHOOSE mm \in 1..12 :
                             /\ DaysBeforeMonth(year, mm) < rest
                             /\ rest <= DaysBeforeMonth(year, mm) + DaysInMonth(year, mm)
             IN  PyDate(year, month, rest - DaysBeforeMonth(year, month))

\* date(year, month, day): ValueError outside the calendar
Date(year, month, day) ==
    IF year \in 1..9999 /\ month \in 1..12 /\ day >= 1 /\ day <= DaysInMonth(year, month)
    THEN PyDate(year, month, day)
    ELSE Raises("ValueError")

\* d + timedelta(days=days): OverflowError outside date.min .. date.max;
\* an exception raised while computing d goes on
AddDays(d, days) ==
    IF ~IsDate(d) THEN d
    ELSE IF ToOrdinal(d) + days \in 1..3652059
         THEN FromOrdinal(ToOrdinal(d) + days)
         ELSE Raises("OverflowError")

Min(a, b) == IF a <= b THEN a ELSE b

\* a mis-carried _add_months: the year of d whatever the number of months
AddMonths_NoCarry(d, months) ==
    LET total_months == d.month - 1 + months
        month == (total_months % 12) + 1
    IN  Date(d.year, month, Min(d.day, DaysInMonth(d.year, month)))

\* _add_months(d, months)
AddMonths(d, months) ==
    LET total_months == d.month - 1 + months
        year == d.year + total_months \div 12
        month == (total_months % 12) + 1
        day == Min(d.day, DaysInMonth(year, month))
    IN  Date(year, month, day)

\* `not v` of an Optional[int]
Falsy(v) == v = PyNone \/ v = PyInt(0)

\* the interval branch of compute_next_due_date, from 1 January of year
IntervalDue(year, interval_value, interval_unit) ==
    LET start == Date(year, 1, 1)
    IN  IF ~IsDate(start) THEN start
        ELSE IF interval_unit = "days" THEN AddDays(AddDays(start, interval_value), -1)
        ELSE IF interval_unit = "weeks" THEN AddDays(AddDays(start, 7 * interval_value), -1)
        ELSE IF interval_unit = "months" THEN AddDays(AddMonths(start, interval_value), -1)
        ELSE IF interval_unit = "years" THEN AddDays(AddMonths(start, interval_value * 12), -1)
        ELSE PyNone

\* the fixed_date branch: the ValueError of date() is caught
FixedDue(year, fixed_month, fixed_day) ==
    LET d == Date(year, fixed_month, fixed_day)
    IN  IF IsDate(d) THEN d ELSE PyNone

\* compute_next_due_date(schedule_type, interval_value, interval_unit,
\* fixed_month, fixed_day, reference_year), on the day whose year is
\* today_year. The unit is a string, "" standing for None and for "".
ComputeNextDueDate(schedule_type, interval_value, interval_unit, fixed_month, fixed_day, reference_year, today_year) ==
    LET year == IF Falsy(reference_year) THEN today_year ELSE reference_year.n
    IN  IF schedule_type = "interval"
        THEN IF Falsy(interval_value) \/ interval_unit = "" THEN PyNone
             ELSE IntervalDue(year, interval_value.n, interval_unit)
        ELSE IF schedule_type = "fixed_date"
        THEN IF Falsy(fixed_month) \/ Falsy(fixed_day) THEN PyNone
             ELSE FixedDue(year, fixed_month.n, fixed_day.n)
        ELSE PyNone

\* the arguments of the calls
MaxInterval == 6
ScheduleTypes == {"interval", "fixed_date", "", "yearly"}
IntervalValues == {PyNone} \cup {PyInt(n) : n \in 0..MaxInterval \cup {18, 9999}}
IntervalUnits == {"", "days", "weeks", "months", "years", "hours"}
FixedMonths == {PyNone, PyInt(2), PyInt(12), PyInt(13)}
FixedDays == {PyNone, PyInt(29), PyInt(30), PyInt(31)}
ReferenceYears == {PyNone, PyInt(2024), PyInt(2025), PyInt(9999), PyInt(10000)}
TodayYears == {2026, 2027}

DueCall(schedule_type, interval_value, interval_unit, fixed_month, fixed_day, reference_year, today_year) ==
    [status |-> "call", schedule_type |-> schedule_type, interval_value |-> interval_value,
     interval_unit |-> interval_unit, fixed_month |-> fixed_month, fixed_day |-> fixed_day,
     reference_year |-> reference_year, today_year |-> today_year]

InitDue ==
    /\ entity = "maintenance_plan" /\ deleted_at = <<>> /\ audit_events = <<>>
    /\ resp = Response("none", 0, 0, {})
    /\ cf_in = IdleCf /\ cf_out = IdleCf
    /\ diff_in = IdleDiff /\ diff_out = IdleDiff
    /\ fault = Idle /\ users = <<>> /\ session = ""
    /\ \E schedule_type \in ScheduleTypes, interval_value \in IntervalValues,
          interval_unit \in IntervalUnits, fixed_month \in FixedMonths, fixed_day \in FixedDays,
          reference_year \in ReferenceYears, today_year \in TodayYears :
            due_in = DueCall(schedule_type, interval_value, interval_unit,
                             fixed_month, fixed_day, reference_year, today_year)
    /\ due_out = Idle
    /\ plan = Idle /\ last_event = Idle
    /\ inventories = <<>>
    /\ IdleMore

\* compute_next_due_date is applied to the arguments
CallComputeNextDueDate ==
    /\ due_out = Idle
    /\ due_out' = [status |-> "done",
                   value |-> ComputeNextDueDate(
                                due_in.schedule_type, due_in.interval_value, due_in.interval_unit,
                                due_in.fixed_month, due_in.fixed_day, due_in.reference_year,
                                due_in.today_year)]
    /\ UNCHANGED <<due_in, sdVars, cfVars, diffVars, moreVars, faultVars, authVars, planVars, uniqVars>>

NextDue == CallComputeNextDueDate

SpecDue == InitDue /\ [][NextDue]_vars

\* the call is in interval mode with a positive value and one of the four units
IntervalCall(call) ==
    /\ call.schedule_type = "interval"
    /\ call.interval_value # PyNone /\ call.interval_value.n > 0
    /\ call.interval_unit \in {"days", "weeks", "months", "years"}

\* the year the call starts from
YearOf(call) == IF Falsy(call.reference_year) THEN call.today_year ELSE call.reference_year.n

\* r is the day before (1 January of year + n units): by the day count for
\* days and weeks; for months and years r is the last day of its month and
\* that month is the n-th (12n-th) month counted from January of year
DayBefore(r, year, n, unit) ==
    CASE unit = "days" -> ToOrdinal(r) = ToOrdinal(PyDate(year, 1, 1)) + n - 1
      [] unit = "weeks" -> ToOrdinal(r) = ToOrdinal(PyDate(year, 1, 1)) + 7 * n - 1
      [] unit = "months" -> /\ r.day = DaysInMonth(r.year, r.month)
                            /\ r.year * 12 + r.month = year * 12 + n
      [] unit = "years" -> r = PyDate(year + n - 1, 12, 31)

\* 1 January of year + n units is a date (not after 9999-12-31)
StartPlusInterval(year, n, unit) ==
    /\ year \in 1..9999
    /\ CASE unit = "days" -> ToOrdinal(PyDate(year, 1, 1)) + n <= 3652059
         [] unit = "weeks" -> ToOrdinal(PyDate(year, 1, 1)) + 7 * n <= 3652059
         [] unit = "months" -> year * 12 + n < 10000 * 12
         [] unit = "years" -> year + n <= 9999

ImpossibleFixedDate(call) ==
    /\ call.schedule_type = "fixed_date"
    /\ ~Falsy(call.fixed_month) /\ ~Falsy(call.fixed_day)
    /\ ~(/\ call.fixed_month.n \in 1..12
         /\ call.fixed_day.n <= DaysInMonth(YearOf(call), call.fixed_month.n))

\* a required parameter of the mode is missing, or the unit or the schedule
\* type is unknown
MissingOrUnknown(call) ==
    \/ call.schedule_type \notin {"interval", "fixed_date"}
    \/ /\ call.schedule_type = "interval"
       /\ \/ Falsy(call.interval_value)
          \/ call.interval_unit \notin {"days", "weeks", "months", "years"}
    \/ /\ call.schedule_type = "fixed_date"
       /\ (Falsy(call.fixed_month) \/ Falsy(call.fixed_day))

\* C17 as stated: compute_next_due_date never raises; an impossible
\* month/day of fixed_date mode yields None, and so does a missing
\* parameter, an unknown unit or an unknown schedule type.
C17_NeverRaises ==
    due_out.status = "done" =>
        /\ due_out.value.t # "raise"
        /\ (ImpossibleFixedDate(due_in) \/ MissingOrUnknown(due_in)) => due_out.value = PyNone

(***************************************************************************)
(* Maintenance events and the plan's next due date (specification SpecPlan)*)
(***************************************************************************)
\* a MaintenancePlan row: the schedule columns (nullable but schedule_type)
\* and next_due_date
Plan(schedule_type, interval_value, interval_unit, fixed_month, fixed_day, next_due_date) ==
    [schedule_type |-> schedule_type, interval_value |-> interval_value,
     interval_unit |-> interval_unit, fixed_month |-> fixed_month, fixed_day |-> fixed_day,
     next_due_date |-> next_due_date]

PlanScheduleTypes == {"interval", "fixed_date"}
PlanIntervalValues == {PyNone, PyInt(1), PyInt(6), PyInt(9999)}
PlanIntervalUnits == {"", "days", "months", "years"}
PlanFixedMonths == {PyNone, PyInt(2), PyInt(12)}
PlanFixedDays == {PyNone, PyInt(29), PyInt(31)}
PlanDueDates == {PyDate(2024, 2, 29), PyDate(2024, 6, 15), PyDate(2026, 3, 10)}
PerformedDates == {PyDate(2023, 6, 15), PyDate(2024, 3, 1), PyDate(2024, 12, 31),
                   PyDate(2025, 1, 10), PyDate(2027, 2, 1)}

\* a < b of two dates
Earlier(a, b) == ToOrdinal(a) < ToOrdinal(b)

\* a recalculation that takes the computed date whenever there is one
Recalculate_Always(p, next_date) ==
    IF IsDate(next_date) THEN [p EXCEPT !.next_due_date = next_date] ELSE p

\* _recalculate_plan_due_date: the plan after the comparison of next_date
\* with its next_due_date
Recalculate(p, next_date) ==
    IF IsDate(next_date) /\ Earlier(p.next_due_date, next_date)
    THEN [p EXCEPT !.next_due_date = next_date]
    ELSE p

\* the date computed for an event of the plan: reference year
\* performed_at.year + 1
NextDateFor(p, performed_at, today_year) ==
    ComputeNextDueDate(p.schedule_type, p.interval_value, p.interval_unit,
                       p.fixed_month, p.fixed_day, PyInt(performed_at.year + 1), today_year)

InitPlan ==
    /\ entity = "maintenance_plan" /\ deleted_at = <<>> /\ audit_events = <<>>
    /\ resp = Response("none", 0, 0, {})
    /\ cf_in = IdleCf /\ cf_out = IdleCf
    /\ diff_in = IdleDiff /\ diff_out = IdleDiff
    /\ fault = Idle /\ users = <<>> /\ session = ""
    /\ due_in = Idle /\ due_out = Idle
    /\ \E schedule_type \in PlanScheduleTypes, interval_value \in PlanIntervalValues,
          interval_unit \in PlanIntervalUnits, fixed_month \in PlanFixedMonths,
          fixed_day \in PlanFixedDays, next_due_date \in PlanDueDates :
            plan = Plan(schedule_type, interval_value, interval_unit,
                        fixed_month, fixed_day, next_due_date)
    /\ last_event = Idle
    /\ inventories = <<>>
    /\ IdleMore

\* POST /maintenance-events/ : perform_create saves the event, then
\* _recalculate_plan_due_date; an exception of compute_next_due_date leaves
\* the handler after the event is saved
CreateEvent(performed_at, today_year) ==
    LET next_date == NextDateFor(plan, performed_at, today_year)
    IN  /\ last_event' = [status |-> "saved", performed_at |-> performed_at,
                          next_date |-> next_date]
        /\ plan' = IF next_date.t = "raise" THEN plan ELSE Recalculate(plan, next_date)
        /\ resp' = Response("create", 0, IF next_date.t = "raise" THEN 500 ELSE 201, {})
        /\ UNCHANGED <<entity, deleted_at, audit_events, cfVars, diffVars, moreVars, faultVars, authVars,
                       dueVars, uniqVars>>

NextPlan == \E performed_at \in PerformedDates, today_year \in TodayYears :
                CreateEvent(performed_at, today_year)

SpecPlan == InitPlan /\ [][NextPlan]_vars

\* C18: for any sequence of maintenance-event creations of a plan, in any
\* order of their performed_at dates, the plan's next_due_date never
\* decreases: each creation leaves the plan unchanged or replaces its
\* next_due_date by a strictly later date.
C18_NeverBackward ==
    [][plan' = plan \/ Earlier(plan.next_due_date, plan'.next_due_date)]_vars

\* an event whose computed date is before the plan's next_due_date has been
\* recorded, after an event that moved the date
C18_Witness ==
    /\ last_event # Idle /\ IsDate(last_event.next_date)
    /\ Earlier(last_event.next_date, plan.next_due_date)
    /\ plan.next_due_date \notin PlanDueDates

\* C19 as stated: after a maintenance event is recorded for a plan, the
\* plan's next_due_date is strictly later than the event's performed_at,
\* for every schedule configuration a plan can hold.
C19_PushedPastEvent ==
    last_event # Idle => Earlier(last_event.performed_at, plan.next_due_date)

(***************************************************************************)
(* Uniqueness of inventory serial numbers and K-numbers (SpecUnique)       *)
(***************************************************************************)
\* NULL of a nullable column
NoValue == "<null>"
SerialNumbers == {NoValue, "SN1", "SN2"}
KNumbers == {NoValue, "K1"}

Inventory(serial_number, knumber, row_deleted_at) ==
    [serial_number |-> serial_number, knumber |-> knumber, deleted_at |-> row_deleted_at]

ux_inventories_serial_active == "ux_inventories_serial_active"
ux_inventories_knumber_active == "ux_inventories_knumber_active"

\* two active rows of the table share a non-null value of the column
Duplicated(rows, column) ==
    \E i, j \in DOMAIN rows :
        /\ i # j
        /\ rows[i].deleted_at = NULL_TS /\ rows[j].deleted_at = NULL_TS
        /\ rows[i][column] # NoValue /\ rows[i][column] = rows[j][column]

\* the mutant: a database without the unique constraints
ViolatedConstraint_None(rows) == "none"

\* the constraint the database reports for the table the statement would
\* leave, "none" when the statement goes through
ViolatedConstraint(rows) ==
    IF Duplicated(rows, "serial_number") THEN ux_inventories_serial_active
    ELSE IF Duplicated(rows, "knumber") THEN ux_inventories_knumber_active
    ELSE "none"

\* constraint_map of InventoryViewSet.create and update: the key of the
\* validation error
ConstraintField(cname) ==
    IF cname = ux_inventories_knumber_active THEN "knumber" ELSE "serial_number"

\* the serializer's check: an active row other than id holds the value
ActiveWith(rows, column, value, id) ==
    \E i \in DOMAIN rows :
        i # id /\ rows[i].deleted_at = NULL_TS /\ rows[i][column] = value

\* InventoryWriteSerializer.validate on the two columns: the key of the
\* error it raises, "none" when it passes
ValidateUnique(rows, serial_number, knumber, id) ==
    IF serial_number # NoValue /\ ActiveWith(rows, "serial_number", serial_number, id)
    THEN "serial_number"
    ELSE IF knumber # NoValue /\ ActiveWith(rows, "knumber", knumber, id)
    THEN "knumber"
    ELSE "none"

\* a 400 with a validation error under the keys `errors`; a 500 with none
ErrorResponse(op, id, status, errors) ==
    [op |-> op, id |-> id, status |-> status, rows |-> {}, errors |-> errors]

\* the answer of create and update saving `saved`: the serializer's error,
\* else the IntegrityError of the save translated by
\* raise_integrity_error_as_validation (the transaction is rolled back),
\* else the row is written
SaveTranslated(op, id, status, invalid, saved) ==
    LET cname == ViolatedConstraint(saved)
    IN  IF invalid # "none"
        THEN /\ inventories' = inventories
             /\ resp' = ErrorResponse(op, id, 400, {invalid})
             /\ fault' = Fault(IF invalid = "knumber" THEN ux_inventories_knumber_active
                               ELSE ux_inventories_serial_active, id)
        ELSE IF cname # "none"
        THEN /\ inventories' = inventories
             /\ resp' = ErrorResponse(op, id, 400, {ConstraintField(cname)})
             /\ fault' = Fault(cname, id)
        ELSE /\ inventories' = saved
             /\ resp' = Response(op, id, status, {id})
             /\ fault' = NoFault

UniqueFrame == UNCHANGED <<entity, deleted_at, audit_events, cfVars, diffVars, moreVars, authVars, dueVars, planVars>>

\* POST /inventories/ ; the audit rows of the handlers are left out of this
\* specification
CreateInventory(serial_number, knumber) ==
    /\ Len(inventories) < MaxRows
    /\ SaveTranslated("create", Len(inventories) + 1, 201,
                      ValidateUnique(inventories, serial_number, knumber, 0),
                      Append(inventories, Inventory(serial_number, knumber, NULL_TS)))
    /\ UniqueFrame

\* PUT /inventories/<id>/ of an active row
UpdateInventory(id, serial_number, knumber) ==
    /\ id \in DOMAIN inventories /\ inventories[id].deleted_at = NULL_TS
    /\ SaveTranslated("update", id, 200,
                      ValidateUnique(inventories, serial_number, knumber, id),
                      [inventories EXCEPT ![id] = Inventory(serial_number, knumber, NULL_TS)])
    /\ UniqueFrame

\* DELETE /inventories/<id>/ : the row is soft-deleted
DestroyInventory(id) ==
    /\ id \in DOMAIN inventories /\ inventories[id].deleted_at = NULL_TS
    /\ inventories' = [inventories EXCEPT ![id].deleted_at = DELETED_TS]
    /\ resp' = Response("destroy", id, 204, {id})
    /\ fault' = NoFault
    /\ UniqueFrame

\* the table after the rows of `order` are saved one after another with
\* deleted_at = None, up to the first save the database refuses
RECURSIVE RestoreInOrder(_, _)
RestoreInOrder(rows, order) ==
    IF order = <<>> THEN rows
    ELSE LET saved == [rows EXCEPT ![Head(order)].deleted_at = NULL_TS]
         IN  IF ViolatedConstraint(saved) # "none" THEN rows
             ELSE RestoreInOrder(saved, Tail(order))

\* the constraint that stopped the loop, "none" when it ran to its end
RECURSIVE RefusedInOrder(_, _)
RefusedInOrder(rows, order) ==
    IF order = <<>> THEN "none"
    ELSE LET saved == [rows EXCEPT ![Head(order)].deleted_at = NULL_TS]
         IN  IF ViolatedConstraint(saved) # "none" THEN ViolatedConstraint(saved)
             ELSE RefusedInOrder(saved, Tail(order))

\* the answer of restore and bulk_restore: inv.save() is not guarded, the
\* IntegrityError leaves the handler
RestoreAnswer(op, id, status, order) ==
    LET cname == RefusedInOrder(inventories, order)
    IN  /\ inventories' = RestoreInOrder(inventories, order)
        /\ resp' = IF cname = "none" THEN Response(op, id, status, SeqRange(order))
                   ELSE ErrorResponse(op, id, 500, {})
        /\ fault' = IF cname = "none" THEN NoFault ELSE Fault(cname, id)

\* POST /inventories/<id>/restore/
RestoreInventory(id) ==
    /\ id \in DOMAIN inventories /\ inventories[id].deleted_at # NULL_TS
    /\ RestoreAnswer("restore", id, 204, <<id>>)
    /\ UniqueFrame

\* POST /inventories/bulk_restore/
BulkRestoreInventory(ids) ==
    /\ ids # {}
    /\ \E order \in Orders({i \in DOMAIN inventories :
                              i \in ids /\ inventories[i].deleted_at # NULL_TS}) :
          RestoreAnswer("bulk_restore", 0, 200, order)
    /\ UniqueFrame

InitUnique ==
    /\ entity = "inventory" /\ deleted_at = <<>> /\ audit_events = <<>>
    /\ resp = Response("none", 0, 0, {})
    /\ cf_in = IdleCf /\ cf_out = IdleCf
    /\ diff_in = IdleDiff /\ diff_out = IdleDiff
    /\ fault = NoFault /\ users = <<>> /\ session = ""
    /\ due_in = Idle /\ due_out = Idle
    /\ plan = Idle /\ last_event = Idle
    /\ inventories = <<>>
    /\ IdleMore

NextUnique ==
    \/ \E serial_number \in SerialNumbers, knumber \in KNumbers :
          CreateInventory(serial_number, knumber)
    \/ \E id \in RowIds, serial_number \in SerialNumbers, knumber \in KNumbers :
          UpdateInventory(id, serial_number, knumber)
    \/ \E id \in RowIds : DestroyInventory(id)
    \/ \E id \in RowIds : RestoreInventory(id)
    \/ \E ids \in SUBSET RowIds : BulkRestoreInventory(ids)

SpecUnique == InitUnique /\ [][NextUnique]_vars

\* C20 as stated: whenever a create, update, restore or bulk restore would
\* violate the uniqueness of an inventory serial number or K-number, the
\* answer is a validation error keyed by the offending field, never a raw
\* integrity error, and the stored rows are unchanged.
C20_UniqueTranslated ==
    [][(/\ resp'.op \in {"create", "update", "restore", "bulk_restore"}
        /\ fault'.kind \in {ux_inventories_serial_active, ux_inventories_knumber_active})
          => (/\ resp'.status = 400
              /\ resp'.errors = {ConstraintField(fault'.kind)}
              /\ inventories' = inventories)]_vars

(***************************************************************************)
(* Soft-delete filters written inline against the shared one               *)
(***************************************************************************)
\* C23 as stated: for every value of the include_deleted and only_deleted
\* query parameters (truthy tokens in any letter case, with or without
\* surrounding whitespace, other strings, absent) and every action name, the
\* filters written inline in the crm and wiki viewsets select the same rows
\* as the shared apply_soft_delete_filters.
C23_UniformFilters ==
    \A query_params \in QueryParams, action_name \in Operations :
        /\ CrmInlineFilter(AllRows, query_params, action_name)
              = ApplySoftDeleteFilters(AllRows, query_params, action_name)
        /\ WikiApplyDeletedFilters(AllRows, query_params, action_name)
              = ApplySoftDeleteFilters(AllRows, query_params, action_name)

(***************************************************************************)
(* Further claims about custom-field validation (specification SpecCF)     *)
(***************************************************************************)
\* every select field whose value after the overlay is non-empty and is no
\* member of its options is reported under its key
SelectRejected(defs, overlaid, out) ==
    \A d \in SeqRange(defs) :
        (/\ d.field_type = "select"
         /\ ~IsNoneOrEmpty(DictGet(overlaid, d.key))
         /\ Str(DictGet(overlaid, d.key)) \notin SeqRange(d.options))
            => (out.status = "error" /\ d.key \in DOMAIN out.errors)

\* C24 as stated: for a select-type definition and every configuration of
\* its options (a list, a mapping, empty or absent), a non-empty submitted
\* value that is not a member of the allowed option set yields a validation
\* error under the field's key.
C24_SelectMembership ==
    CfValidated => SelectRejected(CfMaps.defs, CfOverlaid, cf_out)

\* `not v` of a coerced value
FalsyValue(v) ==
    \/ v = PyNone \/ v = PyBool(FALSE) \/ v = PyInt(0)
    \/ (v.t = "str" /\ v.s = <<>>)
    \/ (v.t = "float" /\ v.m = 0)

\* the coerced value of the non-required field d after the overlay
CoercedOf(d, overlaid) == CoerceField(d, DictGet(overlaid, d.key)).coerced

FalsyDropped(defs, overlaid, result) ==
    \A d \in SeqRange(defs) :
        (~d.required /\ FalsyValue(CoercedOf(d, overlaid))) => d.key \notin DOMAIN result

NoneAndBlankDropped(defs, overlaid, result) ==
    \A d \in SeqRange(defs) :
        ~d.required =>
            IF IsNoneOrBlank(CoercedOf(d, overlaid))
            THEN d.key \notin DOMAIN result
            ELSE d.key \in DOMAIN result /\ result[d.key] = CoercedOf(d, overlaid)

\* C25 as stated: the clean step drops falsy values of non-required known
\* fields on every validation pass: a submitted boolean false or number 0 is
\* absent from the returned object, like None and the empty string.
C25_FalsyDropped ==
    CfSucceeded => FalsyDropped(CfMaps.defs, CfOverlaid, cf_out.result)

\* C25, amended: the clean step drops the non-required known fields whose
\* coerced value is None or a blank string (empty or whitespace only); every
\* other coerced value, boolean false and number 0 included, is in the
\* returned object under the field's key.
C25_NoneAndBlankDropped ==
    CfSucceeded => NoneAndBlankDropped(CfMaps.defs, CfOverlaid, cf_out.result)

\* a pass that keeps a boolean false and drops an empty string
C25_Witness ==
    /\ CfSucceeded
    /\ cf_in.table = T_Optional
    /\ k_attivo \in DOMAIN cf_out.result /\ cf_out.result[k_attivo] = PyBool(FALSE)
    /\ k_peso \notin DOMAIN cf_out.result
    /\ \E i \in DOMAIN cf_in.incoming.items :
          cf_in.incoming.items[i].key = k_peso /\ cf_in.incoming.items[i].val = v_empty

\* every key of the result is the canonical key of an active definition or
\* matches none: a known field is then under its canonical key alone
OnlyCanonicalKeys(defs, result) ==
    \A k \in DOMAIN result :
        (\E d \in SeqRange(defs) : d.key = k) \/ Matching(defs, k) = {}

\* C30 as stated: whenever the function returns an object, in full or in
\* partial mode and for any existing stored object, every key of the result
\* is the canonical key of a definition or a key whose normalized spelling
\* matches no definition, and a known field never appears under two keys.
C30_OnlyCanonicalKeys ==
    (CfSucceeded /\ ~cf_out.is_none) => OnlyCanonicalKeys(CfMaps.defs, cf_out.result)

(***************************************************************************)
(* Encryption of secrets at rest (specification SpecCrypto)                *)
(***************************************************************************)
PREFIX == <<"e","n","c",":",":">>

\* s.startswith(prefix)
StartsWith(s, prefix) == Len(s) >= Len(prefix) /\ SubSeq(s, 1, Len(prefix)) = prefix

\* is_encrypted(value)
IsEncrypted(value) == value # PyNone /\ value.s # <<>> /\ StartsWith(value.s, PREFIX)

\* get_fernet(): the key of the cipher, or RuntimeError when no key is
\* configured outside DEBUG
GetFernet(settings) ==
    IF settings.FIELD_ENCRYPTION_KEY THEN [t |-> "fernet", key |-> "k"]
    ELSE IF settings.DEBUG THEN [t |-> "fernet", key |-> "d"]
    ELSE Raises("RuntimeError")

\* Fernet(key).encrypt(data): a token is the version mark g, the initial
\* vector, the payload under the key and the signature of the key
FernetEncrypt(f, iv, data) == <<"g", iv>> \o data \o <<f.key>>

\* Fernet(key).decrypt(token): the payload of a token signed with the key,
\* InvalidToken for any other string
FernetDecrypt(f, token) ==
    IF Len(token) >= 3 /\ token[1] = "g" /\ token[Len(token)] = f.key
    THEN PyStr(SubSeq(token, 3, Len(token) - 1))
    ELSE Raises("InvalidToken")

\* encrypt(value)
Encrypt(settings, iv, value) ==
    IF value = PyNone \/ value.s = <<>> THEN value
    ELSE IF IsEncrypted(value) THEN value
    ELSE IF GetFernet(settings).t = "raise" THEN GetFernet(settings)
    ELSE PyStr(PREFIX \o FernetEncrypt(GetFernet(settings), iv, value.s))

\* decrypt(value)
Decrypt(settings, value) ==
    IF value = PyNone \/ value.s = <<>> THEN value
    ELSE IF ~IsEncrypted(value) THEN value
    ELSE IF GetFernet(settings).t = "raise" THEN GetFernet(settings)
    ELSE FernetDecrypt(GetFernet(settings), SubSeq(value.s, Len(PREFIX) + 1, Len(value.s)))

\* the values handed to encrypt, the initial vectors, the settings
Plaintexts ==
    {PyNone, PyStr(<<>>), PyStr(<<"a">>), PyStr(<<"g","1","a","d">>), PyStr(<<"s","3","c","r","3","t","!">>),
     PyStr(<<"e","n","c",":">>), PyStr(<<"E","n","c",":",":","a">>),
     PyStr(PREFIX), PyStr(PREFIX \o <<"a","b">>)}
InitialVectors == {"1", "2"}
Settings == [DEBUG : BOOLEAN, FIELD_ENCRYPTION_KEY : BOOLEAN]

InitCrypto ==
    /\ entity = "inventory" /\ deleted_at = <<>> /\ audit_events = <<>>
    /\ resp = Response("none", 0, 0, {})
    /\ cf_in = IdleCf /\ cf_out = IdleCf
    /\ diff_in = IdleDiff /\ diff_out = IdleDiff
    /\ fault = Idle /\ users = <<>> /\ session = ""
    /\ due_in = Idle /\ due_out = Idle
    /\ plan = Idle /\ last_event = Idle
    /\ inventories = <<>>
    /\ pending = <<>> /\ contacts = <<>> /\ folders = <<>> /\ files = <<>>
    /\ \E settings \in Settings, value \in Plaintexts :
          crypto_in = [status |-> "call", settings |-> settings, value |-> value]
    /\ crypto_out = Idle

\* encrypt is applied to the value
CallEncrypt(iv) ==
    /\ crypto_out = Idle
    /\ crypto_out' = [status |-> "encrypted",
                      value |-> Encrypt(crypto_in.settings, iv, crypto_in.value)]
    /\ UNCHANGED <<crypto_in, sdVars, cfVars, diffVars, faultVars, authVars, dueVars, planVars,
                   uniqVars, pending, contacts, driveVars>>

\* decrypt is applied to what encrypt returned
CallDecrypt ==
    /\ crypto_out.status = "encrypted" /\ crypto_out.value.t # "raise"
    /\ crypto_out' = [status |-> "decrypted", stored |-> crypto_out.value,
                      value |-> Decrypt(crypto_in.settings, crypto_out.value)]
    /\ UNCHANGED <<crypto_in, sdVars, cfVars, diffVars, faultVars, authVars, dueVars, planVars,
                   uniqVars, pending, contacts, driveVars>>

NextCrypto == (\E iv \in InitialVectors : CallEncrypt(iv)) \/ CallDecrypt

SpecCrypto == InitCrypto /\ [][NextCrypto]_vars

\* a key is configured, or derived in DEBUG
HasKey(settings) == GetFernet(settings).t = "fernet"

\* C22 as stated: for every plaintext string p, decrypt(encrypt(p)) = p,
\* where encrypt marks a non-empty result with the enc:: prefix, decrypt
\* returns a value without that prefix unchanged, and encrypt leaves an
\* already prefixed value unchanged (under settings that provide a key).
C22_RoundTrip ==
    HasKey(crypto_in.settings) =>
    /\ crypto_out.status = "encrypted" =>
          /\ crypto_out.value.t # "raise"
          /\ (crypto_out.value # PyNone /\ crypto_out.value.s # <<>>)
                => StartsWith(crypto_out.value.s, PREFIX)
          /\ IsEncrypted(crypto_in.value) => crypto_out.value = crypto_in.value
    /\ crypto_out.status = "decrypted" => crypto_out.value = crypto_in.value

(***************************************************************************)
(* Inventory writes in flight together (specification SpecRace)            *)
(***************************************************************************)
\* the requests served at the same time
RequestIds == {1, 2}
RaceSerialNumbers == {NoValue, "SN1"}

\* pending with request r added, removed
Started(r, request) == [x \in DOMAIN pending \cup {r} |-> IF x = r THEN request ELSE pending[x]]
Finished(r) == [x \in DOMAIN pending \ {r} |-> pending[x]]

\* the creates in flight: each will add a row
PendingCreates == {x \in DOMAIN pending : pending[x].op = "create"}

RaceFrame == UNCHANGED <<entity, deleted_at, audit_events, cfVars, diffVars, authVars, dueVars,
                         planVars, cryptoVars, contacts, driveVars>>

\* create / update up to the end of serializer.is_valid(): the pre-check
\* reads the committed rows; it answers 400 or lets the request go on
BeginWrite(r, op, id, serial_number, knumber) ==
    /\ r \notin DOMAIN pending
    /\ \/ op = "create" /\ id = 0
          /\ Len(inventories) + Cardinality(PendingCreates) < MaxRows
       \/ op = "update" /\ id \in DOMAIN inventories /\ inventories[id].deleted_at = NULL_TS
    /\ LET invalid == ValidateUnique(inventories, serial_number, knumber, id)
       IN  IF invalid # "none"
           THEN /\ resp' = ErrorResponse(op, id, 400, {invalid})
                /\ fault' = Fault(IF invalid = "knumber" THEN ux_inventories_knumber_active
                                  ELSE ux_inventories_serial_active, 1)
                /\ pending' = pending
           ELSE /\ pending' = Started(r, [op |-> op, id |-> id, serial_number |-> serial_number,
                                          knumber |-> knumber])
                /\ UNCHANGED <<resp, fault>>
    /\ UNCHANGED inventories
    /\ RaceFrame

\* the table the save of the request leaves
SavedBy(request) ==
    IF request.op = "create"
    THEN Append(inventories, Inventory(request.serial_number, request.knumber, NULL_TS))
    ELSE [inventories EXCEPT ![request.id] =
             Inventory(request.serial_number, request.knumber, NULL_TS)]

\* the save and the end of the transaction of request r: the database
\* checks the constraints against the rows committed by then; the
\* IntegrityError is translated by raise_integrity_error_as_validation
CommitWrite(r) ==
    /\ r \in DOMAIN pending
    /\ LET request == pending[r]
           cname == ViolatedConstraint(SavedBy(request))
       IN  IF cname # "none"
           THEN /\ inventories' = inventories
                /\ resp' = ErrorResponse(request.op, request.id, 400, {ConstraintField(cname)})
                /\ fault' = Fault(cname, 2)
           ELSE /\ inventories' = SavedBy(request)
                /\ resp' = Response(request.op, request.id,
                                    IF request.op = "create" THEN 201 ELSE 200, {})
                /\ fault' = NoFault
    /\ pending' = Finished(r)
    /\ RaceFrame

InitRace ==
    /\ entity = "inventory" /\ deleted_at = <<>> /\ audit_events = <<>>
    /\ resp = Response("none", 0, 0, {})
    /\ cf_in = IdleCf /\ cf_out = IdleCf
    /\ diff_in = IdleDiff /\ diff_out = IdleDiff
    /\ fault = NoFault /\ users = <<>> /\ session = ""
    /\ due_in = Idle /\ due_out = Idle
    /\ plan = Idle /\ last_event = Idle
    /\ inventories = <<>>
    /\ IdleMore

NextRace ==
    \/ \E r \in RequestIds, op \in {"create", "update"}, id \in {0} \cup RowIds,
          serial_number \in RaceSerialNumbers, knumber \in KNumbers :
            BeginWrite(r, op, id, serial_number, knumber)
    \/ \E r \in RequestIds : CommitWrite(r)

SpecRace == InitRace /\ [][NextRace]_vars

\* C21: when two requests that create or update inventories with the same
\* non-null serial number or K-number interleave in any order, both passing
\* the serializer's pre-check before either commits, at most one commits,
\* the other receives the field-level validation error, and in no reachable
\* state do two non-deleted inventories share a serial number or a K-number.
C21_OneCommits ==
    [][/\ ~Duplicated(inventories', "serial_number") /\ ~Duplicated(inventories', "knumber")
       /\ (fault' # fault /\ fault'.kind # "none")
             => (/\ resp'.status = 400
                 /\ resp'.errors = {ConstraintField(fault'.kind)}
                 /\ inventories' = inventories)]_vars

\* a request passed the pre-check and was refused at its save, after the
\* other request committed the same serial number
C21_Witness ==
    /\ fault.kind = ux_inventories_serial_active /\ fault.at = 2
    /\ resp.status = 400 /\ resp.errors = {"serial_number"}
    /\ \E i \in DOMAIN inventories : inventories[i].serial_number = "SN1"

(***************************************************************************)
(* Contacts and their primary flag (specification SpecContacts)            *)
(***************************************************************************)
Customers == {"c1", "c2"}
\* Contact.site is nullable: NoValue is the empty site
Sites == {NoValue, "s1"}
\* the site s1 is a site of the customer c1
Pairs == {<<"c1", NoValue>>, <<"c1", "s1">>, <<"c2", NoValue>>}

Contact(customer, site, is_primary, row_deleted_at) ==
    [customer |-> customer, site |-> site, is_primary |-> is_primary,
     deleted_at |-> row_deleted_at]

\* the other active primaries of the pair of row id
OtherPrimaries(rows, id) ==
    {i \in DOMAIN rows : /\ i # id
                         /\ rows[i].customer = rows[id].customer
                         /\ rows[i].site = rows[id].site
                         /\ rows[i].deleted_at = NULL_TS
                         /\ rows[i].is_primary}

\* ContactViewSet._enforce_primary(instance)
EnforcePrimary(rows, id) ==
    IF ~rows[id].is_primary THEN rows
    ELSE [i \in DOMAIN rows |->
             IF i \in OtherPrimaries(rows, id) THEN [rows[i] EXCEPT !.is_primary = FALSE]
             ELSE rows[i]]

\* get_queryset: a soft-deleted row is found only with include_deleted
Found(id, include_deleted) ==
    /\ id \in DOMAIN contacts
    /\ contacts[id].deleted_at = NULL_TS \/ include_deleted

\* log_event after the handler's writes: AuditEvent.objects.create raises
\* (audit = "raises", e.g. a request path longer than the 255 characters of
\* AuditEvent.path) or stores the row; nothing written before is undone
Answer(op, id, status, audit) ==
    /\ resp' = IF audit = "raises" THEN ErrorResponse(op, id, 500, {})
               ELSE Response(op, id, status, {})
    /\ fault' = IF audit = "raises" THEN Fault("audit", 1) ELSE NoFault

AuditOutcomes == {"stored", "raises"}

ContactFrame == UNCHANGED <<entity, deleted_at, audit_events, cfVars, diffVars, authVars, dueVars,
                            planVars, uniqVars, cryptoVars, pending, driveVars>>

\* POST /contacts/ : perform_create saves, enforces, then logs
CreateContact(customer, site, is_primary, row_deleted_at, audit) ==
    /\ Len(contacts) < MaxRows
    /\ LET saved == Append(contacts, Contact(customer, site, is_primary, row_deleted_at))
       IN  contacts' = EnforcePrimary(saved, Len(saved))
    /\ Answer("create", Len(contacts) + 1, 201, audit)
    /\ ContactFrame

\* PUT/PATCH /contacts/<id>/ : perform_update saves, enforces, then logs
UpdateContact(id, include_deleted, customer, site, is_primary, row_deleted_at, audit) ==
    /\ Found(id, include_deleted)
    /\ LET saved == [contacts EXCEPT ![id] = Contact(customer, site, is_primary, row_deleted_at)]
       IN  contacts' = EnforcePrimary(saved, id)
    /\ Answer("update", id, 200, audit)
    /\ ContactFrame

\* DELETE /contacts/<id>/ : perform_destroy saves, then logs
DestroyContact(id, include_deleted, audit) ==
    /\ Found(id, include_deleted)
    /\ contacts' = [contacts EXCEPT ![id].deleted_at = DELETED_TS]
    /\ Answer("destroy", id, 204, audit)
    /\ ContactFrame

\* POST /contacts/<id>/restore/ : saves, logs, then enforces; the raise of
\* log_event ends the request before _enforce_primary
RestoreContact(id, audit) ==
    /\ id \in DOMAIN contacts
    /\ LET saved == [contacts EXCEPT ![id].deleted_at = NULL_TS]
       IN  contacts' = IF audit = "raises" THEN saved ELSE EnforcePrimary(saved, id)
    /\ Answer("restore", id, 204, audit)
    /\ ContactFrame

\* the loop of bulk_restore over `order` from its n-th row: each row is
\* saved, logged, then enforced; log_event raises at the k-th row (0: never)
RECURSIVE RestoreLoop(_, _, _, _)
RestoreLoop(rows, order, n, k) ==
    IF n > Len(order) THEN rows
    ELSE LET saved == [rows EXCEPT ![order[n]].deleted_at = NULL_TS]
         IN  IF n = k THEN saved
             ELSE RestoreLoop(EnforcePrimary(saved, order[n]), order, n + 1, k)

\* POST /contacts/bulk_restore/ : the soft-deleted rows among ids, in the
\* order the database returns them (Contact declares no ordering)
BulkRestoreContact(ids, k) ==
    /\ ids # {}
    /\ \E order \in Orders({i \in DOMAIN contacts : i \in ids /\ contacts[i].deleted_at # NULL_TS}) :
          /\ k = 0 \/ k \in DOMAIN order
          /\ contacts' = RestoreLoop(contacts, order, 1, k)
          /\ resp' = IF k = 0 THEN Response("bulk_restore", 0, 200, SeqRange(order))
                     ELSE ErrorResponse("bulk_restore", 0, 500, {})
          /\ fault' = IF k = 0 THEN NoFault ELSE Fault("audit", k)
    /\ ContactFrame

InitContacts ==
    /\ entity = "contact" /\ deleted_at = <<>> /\ audit_events = <<>>
    /\ resp = Response("none", 0, 0, {})
    /\ cf_in = IdleCf /\ cf_out = IdleCf
    /\ diff_in = IdleDiff /\ diff_out = IdleDiff
    /\ fault = NoFault /\ users = <<>> /\ session = ""
    /\ due_in = Idle /\ due_out = Idle
    /\ plan = Idle /\ last_event = Idle
    /\ inventories = <<>>
    /\ IdleMore

NextContacts ==
    \/ \E pair \in Pairs, is_primary \in BOOLEAN,
          row_deleted_at \in {NULL_TS, DELETED_TS}, audit \in AuditOutcomes :
            CreateContact(pair[1], pair[2], is_primary, row_deleted_at, audit)
    \/ \E id \in RowIds, include_deleted \in BOOLEAN, pair \in Pairs,
          is_primary \in BOOLEAN, row_deleted_at \in {NULL_TS, DELETED_TS},
          audit \in AuditOutcomes :
            UpdateContact(id, include_deleted, pair[1], pair[2], is_primary, row_deleted_at, audit)
    \/ \E id \in RowIds, include_deleted \in BOOLEAN, audit \in AuditOutcomes :
          DestroyContact(id, include_deleted, audit)
    \/ \E id \in RowIds, audit \in AuditOutcomes : RestoreContact(id, audit)
    \/ \E ids \in SUBSET RowIds, k \in 0..MaxRows : BulkRestoreContact(ids, k)

SpecContacts == InitContacts /\ [][NextContacts]_vars

\* the active primaries of a pair
ActivePrimaries(rows, customer, site) ==
    {i \in DOMAIN rows : /\ rows[i].customer = customer /\ rows[i].site = site
                         /\ rows[i].deleted_at = NULL_TS /\ rows[i].is_primary}

\* C27: between requests, each (customer, site) pair, the empty site
\* included, has at most one non-deleted contact with is_primary set
C27_OnePrimary ==
    \A customer \in Customers, site \in Sites :
        Cardinality(ActivePrimaries(contacts, customer, site)) <= 1

(***************************************************************************)
(* Maintenance events created together (specification SpecPlanRace)        *)
(***************************************************************************)
\* the plans the two requests are created for
RacePlans ==
    {Plan("interval", interval_value, interval_unit, PyNone, PyNone, next_due_date) :
        interval_value \in {PyInt(1), PyInt(6)}, interval_unit \in {"months", "years"},
        next_due_date \in PlanDueDates}
    \cup {Plan("fixed_date", PyNone, "", PyInt(12), PyInt(31), next_due_date) :
             next_due_date \in PlanDueDates}

PlanRaceFrame == UNCHANGED <<entity, deleted_at, audit_events, cfVars, diffVars, faultVars, authVars,
                             dueVars, last_event, uniqVars, cryptoVars, contacts, driveVars>>

\* serializer.is_valid() and serializer.save(): the plan row is read into
\* event.plan, the event is saved
ReadPlan(r, performed_at) ==
    /\ r \notin DOMAIN pending
    /\ pending' = Started(r, [op |-> "create_event", step |-> "read",
                              performed_at |-> performed_at, plan |-> plan, dirty |-> FALSE])
    /\ UNCHANGED <<plan, resp>>
    /\ PlanRaceFrame

\* _recalculate_plan_due_date up to the assignment: next_date is compared
\* with the next_due_date of the row as it was read
ComparePlan(r) ==
    /\ r \in DOMAIN pending /\ pending[r].step = "read"
    /\ LET request == pending[r]
           next_date == NextDateFor(request.plan, request.performed_at, 2026)
           after == Recalculate(request.plan, next_date)
       IN  pending' = [pending EXCEPT ![r] = [request EXCEPT !.step = "compared",
                                                             !.plan = after,
                                                             !.dirty = (after # request.plan)]]
    /\ UNCHANGED <<plan, resp>>
    /\ PlanRaceFrame

\* plan.save(update_fields=["next_due_date", "updated_at"]) when the
\* comparison took the new date, and the response
SavePlan(r) ==
    /\ r \in DOMAIN pending /\ pending[r].step = "compared"
    /\ plan' = IF pending[r].dirty
               THEN [plan EXCEPT !.next_due_date = pending[r].plan.next_due_date]
               ELSE plan
    /\ resp' = Response("create", r, 201, {})
    /\ pending' = Finished(r)
    /\ PlanRaceFrame

InitPlanRace ==
    /\ entity = "maintenance_plan" /\ deleted_at = <<>> /\ audit_events = <<>>
    /\ resp = Response("none", 0, 0, {})
    /\ cf_in = IdleCf /\ cf_out = IdleCf
    /\ diff_in = IdleDiff /\ diff_out = IdleDiff
    /\ fault = Idle /\ users = <<>> /\ session = ""
    /\ due_in = Idle /\ due_out = Idle
    /\ plan \in RacePlans
    /\ last_event = Idle
    /\ inventories = <<>>
    /\ IdleMore

NextPlanRace ==
    \/ \E r \in RequestIds, performed_at \in PerformedDates : ReadPlan(r, performed_at)
    \/ \E r \in RequestIds : ComparePlan(r)
    \/ \E r \in RequestIds : SavePlan(r)

SpecPlanRace == InitPlanRace /\ [][NextPlanRace]_vars

\* C26 as stated: when two maintenance-event creations of a plan run
\* together, in every interleaving of their read, comparison and save, no
\* save stores a next_due_date earlier than the one stored before it.
C26_NeverBackwardTogether ==
    [][~Earlier(plan'.next_due_date, plan.next_due_date)]_vars

(***************************************************************************)
(* Drive folders and files (specification SpecDrive)                       *)
(***************************************************************************)
\* root is a superuser; ugo is not, and is a member of the group g1
DriveUsers == {"root", "ugo"}
IsSuperuser(user) == user = "root"
UserGroupIds(user) == IF user = "ugo" THEN {"g1"} ELSE {}
\* allowed_groups of a folder: empty (open to all) or g2; of a file: g1 or g2
FolderGroups == {{}, {"g2"}}
FileGroups == {{"g1"}, {"g2"}}
\* parent = NoParent: a root folder; folder = NoParent: a file in no folder
NoParent == 0

DriveFolder(parent, allowed_groups, row_deleted_at) ==
    [parent |-> parent, allowed_groups |-> allowed_groups, deleted_at |-> row_deleted_at]
DriveFile(folder, allowed_groups, row_deleted_at) ==
    [folder |-> folder, allowed_groups |-> allowed_groups, deleted_at |-> row_deleted_at]

\* _groups_allow_access(user, groups_qs)
GroupsAllowAccess(user, allowed_ids) ==
    IF IsSuperuser(user) THEN TRUE
    ELSE IF allowed_ids = {} THEN TRUE
    ELSE UserGroupIds(user) \cap allowed_ids # {}

\* _has_folder_access, and the rows _filter_accessible_folders keeps
HasFolderAccess(user, id) == GroupsAllowAccess(user, folders[id].allowed_groups)

\* _has_file_access, and the rows _filter_accessible_files keeps
HasFileAccess(user, id) ==
    /\ GroupsAllowAccess(user, files[id].allowed_groups)
    /\ files[id].folder # NoParent
          => GroupsAllowAccess(user, folders[files[id].folder].allowed_groups)

\* get_object of DriveFolderViewSet: get_queryset applies the soft-delete
\* filter, then the access filter
FolderFound(user, id, include_deleted) ==
    /\ id \in DOMAIN folders
    /\ folders[id].deleted_at = NULL_TS \/ include_deleted
    /\ HasFolderAccess(user, id)

\* get_object of DriveFileViewSet
FileFound(user, id, include_deleted) ==
    /\ id \in DOMAIN files
    /\ files[id].deleted_at = NULL_TS \/ include_deleted
    /\ HasFileAccess(user, id)

\* the folders met walking up from node in at most n steps (node = node.parent)
RECURSIVE WalkUp(_, _, _)
WalkUp(rows, node, n) ==
    IF node = NoParent \/ n = 0 THEN {}
    ELSE {node} \cup WalkUp(rows, rows[node].parent, n - 1)

\* the walk from node reaches a root folder
RECURSIVE WalkEnds(_, _, _)
WalkEnds(rows, node, n) ==
    IF node = NoParent THEN TRUE
    ELSE IF n = 0 THEN FALSE
    ELSE WalkEnds(rows, rows[node].parent, n - 1)

\* the answer of a request of `user` on row id; session holds the user of the
\* last request
DriveAnswer(user, op, id, status) ==
    /\ resp' = Response(op, 0, status, {})
    /\ session' = user

DriveFrame == UNCHANGED <<entity, deleted_at, audit_events, cfVars, diffVars, faultVars, users,
                          dueVars, planVars, uniqVars, cryptoVars, pending, contacts>>

\* POST /drive-folders/ : the serializer takes any folder as parent
CreateFolder(user, parent, allowed_groups) ==
    /\ Len(folders) < MaxRows
    /\ parent \in {NoParent} \cup DOMAIN folders
    /\ folders' = Append(folders, DriveFolder(parent, allowed_groups, NULL_TS))
    /\ DriveAnswer(user, "create", Len(folders) + 1, 201)
    /\ UNCHANGED files
    /\ DriveFrame

\* PUT/PATCH /drive-folders/<id>/ : the serializer takes any folder as parent,
\* the folder itself and its descendants among them
UpdateFolder(user, id, include_deleted, parent, allowed_groups) ==
    /\ FolderFound(user, id, include_deleted)
    /\ parent \in {NoParent} \cup DOMAIN folders
    /\ folders' = [folders EXCEPT ![id].parent = parent, ![id].allowed_groups = allowed_groups]
    /\ DriveAnswer(user, "update", id, 200)
    /\ UNCHANGED files
    /\ DriveFrame

\* DELETE /drive-folders/<id>/
DestroyFolder(user, id) ==
    /\ FolderFound(user, id, FALSE)
    /\ folders' = [folders EXCEPT ![id].deleted_at = DELETED_TS]
    /\ DriveAnswer(user, "destroy", id, 204)
    /\ UNCHANGED files
    /\ DriveFrame

\* POST /drive-folders/<id>/restore/ : get_object, soft-deleted rows included
RestoreFolder(user, id) ==
    /\ FolderFound(user, id, TRUE)
    /\ folders' = [folders EXCEPT ![id].deleted_at = NULL_TS]
    /\ DriveAnswer(user, "restore", id, 200)
    /\ UNCHANGED files
    /\ DriveFrame

\* POST /drive-folders/bulk_restore/ : DriveFolder.objects.filter(id__in=ids,
\* deleted_at__isnull=False), every row of it restored
BulkRestoreFolder(user, ids) ==
    /\ ids # {}
    /\ folders' = [i \in DOMAIN folders |->
                      IF i \in ids THEN [folders[i] EXCEPT !.deleted_at = NULL_TS] ELSE folders[i]]
    /\ DriveAnswer(user, "bulk_restore", 0, 200)
    /\ UNCHANGED files
    /\ DriveFrame

\* POST /drive-folders/<id>/move/ : the new parent is looked up in
\* get_queryset; the folder itself and a parent below it are refused. A walk
\* that never reaches a root nor the folder does not return: no answer.
MoveFolder(user, id, parent) ==
    /\ FolderFound(user, id, FALSE)
    /\ LET found == parent = NoParent \/ FolderFound(user, parent, FALSE)
           above == IF found THEN WalkUp(folders, parent, Len(folders)) ELSE {}
       IN  /\ found => (id \in above \/ WalkEnds(folders, parent, Len(folders)))
           /\ IF ~found
              THEN folders' = folders /\ DriveAnswer(user, "move", id, 404)
              ELSE IF id \in above
              THEN folders' = folders /\ DriveAnswer(user, "move", id, 400)
              ELSE /\ folders' = [folders EXCEPT ![id].parent = parent]
                   /\ DriveAnswer(user, "move", id, 200)
    /\ UNCHANGED files
    /\ DriveFrame

\* POST /drive-files/
CreateFile(user, folder, allowed_groups) ==
    /\ files = <<>>
    /\ folder \in {NoParent} \cup DOMAIN folders
    /\ files' = Append(files, DriveFile(folder, allowed_groups, NULL_TS))
    /\ DriveAnswer(user, "create_file", 1, 201)
    /\ UNCHANGED folders
    /\ DriveFrame

\* PUT/PATCH /drive-files/<id>/
UpdateFile(user, id, include_deleted, folder, allowed_groups) ==
    /\ FileFound(user, id, include_deleted)
    /\ folder \in {NoParent} \cup DOMAIN folders
    /\ files' = [files EXCEPT ![id].folder = folder, ![id].allowed_groups = allowed_groups]
    /\ DriveAnswer(user, "update_file", id, 200)
    /\ UNCHANGED folders
    /\ DriveFrame

\* DELETE /drive-files/<id>/
DestroyFile(user, id) ==
    /\ FileFound(user, id, FALSE)
    /\ files' = [files EXCEPT ![id].deleted_at = DELETED_TS]
    /\ DriveAnswer(user, "destroy_file", id, 204)
    /\ UNCHANGED folders
    /\ DriveFrame

\* POST /drive-files/<id>/restore/
RestoreFile(user, id) ==
    /\ FileFound(user, id, TRUE)
    /\ files' = [files EXCEPT ![id].deleted_at = NULL_TS]
    /\ DriveAnswer(user, "restore_file", id, 200)
    /\ UNCHANGED folders
    /\ DriveFrame

\* POST /drive-files/bulk_restore/ : DriveFile.objects.filter(id__in=ids,
\* deleted_at__isnull=False), every row of it restored
BulkRestoreFile(user, ids) ==
    /\ ids # {}
    /\ files' = [i \in DOMAIN files |->
                    IF i \in ids THEN [files[i] EXCEPT !.deleted_at = NULL_TS] ELSE files[i]]
    /\ DriveAnswer(user, "bulk_restore_file", 0, 200)
    /\ UNCHANGED folders
    /\ DriveFrame

\* POST /drive-files/<id>/move/ : the target is an active accessible folder
MoveFile(user, id, folder) ==
    /\ FileFound(user, id, FALSE)
    /\ LET found == folder = NoParent \/ FolderFound(user, folder, FALSE)
       IN  IF ~found
           THEN files' = files /\ DriveAnswer(user, "move_file", id, 404)
           ELSE /\ files' = [files EXCEPT ![id].folder = folder]
                /\ DriveAnswer(user, "move_file", id, 200)
    /\ UNCHANGED folders
    /\ DriveFrame

InitDrive ==
    /\ entity = "drive_folder" /\ deleted_at = <<>> /\ audit_events = <<>>
    /\ resp = Response("none", 0, 0, {})
    /\ cf_in = IdleCf /\ cf_out = IdleCf
    /\ diff_in = IdleDiff /\ diff_out = IdleDiff
    /\ fault = Idle /\ users = [u \in DriveUsers |-> "active"] /\ session = ""
    /\ due_in = Idle /\ due_out = Idle
    /\ plan = Idle /\ last_event = Idle
    /\ inventories = <<>>
    /\ crypto_in = Idle /\ crypto_out = Idle
    /\ pending = <<>> /\ contacts = <<>>
    /\ folders = <<>> /\ files = <<>>

NextDrive ==
    \/ \E user \in DriveUsers, parent \in {NoParent} \cup RowIds, allowed_groups \in FolderGroups :
          CreateFolder(user, parent, allowed_groups)
    \/ \E user \in DriveUsers, id \in RowIds, include_deleted \in BOOLEAN,
          parent \in {NoParent} \cup RowIds, allowed_groups \in FolderGroups :
            UpdateFolder(user, id, include_deleted, parent, allowed_groups)
    \/ \E user \in DriveUsers, id \in RowIds : DestroyFolder(user, id)
    \/ \E user \in DriveUsers, id \in RowIds : RestoreFolder(user, id)
    \/ \E user \in DriveUsers, ids \in SUBSET RowIds : BulkRestoreFolder(user, ids)
    \/ \E user \in DriveUsers, id \in RowIds, parent \in {NoParent} \cup RowIds :
          MoveFolder(user, id, parent)
    \/ \E user \in DriveUsers, folder \in {NoParent} \cup RowIds, allowed_groups \in FileGroups :
          CreateFile(user, folder, allowed_groups)
    \/ \E user \in DriveUsers, id \in RowIds, include_deleted \in BOOLEAN,
          folder \in {NoParent} \cup RowIds, allowed_groups \in FileGroups :
            UpdateFile(user, id, include_deleted, folder, allowed_groups)
    \/ \E user \in DriveUsers, id \in RowIds : DestroyFile(user, id)
    \/ \E user \in DriveUsers, id \in RowIds : RestoreFile(user, id)
    \/ \E user \in DriveUsers, ids \in SUBSET RowIds : BulkRestoreFile(user, ids)
    \/ \E user \in DriveUsers, id \in RowIds, folder \in {NoParent} \cup RowIds :
          MoveFile(user, id, folder)

SpecDrive == InitDrive /\ [][NextDrive]_vars

\* C28 as stated: after any sequence of folder create, update and move
\* requests the parent relation is acyclic: no folder is its own parent or
\* its own ancestor.
C28_Acyclic ==
    \A id \in DOMAIN folders : id \notin WalkUp(folders, folders[id].parent, Len(folders))

\* the user of the request is no superuser and the group rule denies it
\* the folder, the file
FolderDenied(user, id) == ~IsSuperuser(user) /\ ~HasFolderAccess(user, id)
FileDenied(user, id) == ~IsSuperuser(user) /\ ~HasFileAccess(user, id)

\* C29 as stated: a request of a non-superuser leaves deleted_at and
\* parent (folder) of every folder and file the group rule denies that user
\* as they were, restore and bulk_restore included.
C29_DeniedUnchanged ==
    [][/\ \A id \in DOMAIN folders :
             FolderDenied(session', id)
                => /\ folders'[id].deleted_at = folders[id].deleted_at
                   /\ folders'[id].parent = folders[id].parent
       /\ \A id \in DOMAIN files :
             FileDenied(session', id)
                => /\ files'[id].deleted_at = files[id].deleted_at
                   /\ files'[id].folder = files[id].folder]_vars

====
